---- MODULE Spec2Model ----
(***************************************************************************)
(* State-machine model of the msft thread-pool runtime                     *)
(* (crates/runtime): the overlapped I/O driver (write side, read side),    *)
(* the Reader/Writer facades of ThreadpoolIo and the drop protocol of the  *)
(* pool objects.  Every handler of the source is one action; a handler     *)
(* that runs under the state mutex is atomic in the model.                 *)
(***************************************************************************)
EXTENDS Integers, Sequences, FiniteSets, TLC

None == "None"

\* Option<Waker>: no waker, or the waker of task t.
NoWaker == <<>>
SomeWaker(t) == <<t>>

(***************************************************************************)
(* Bounds of the model.                                                    *)
(***************************************************************************)
MaxLen == 3        \* longest byte buffer handed to Writer::buffer
MaxWriters == 2    \* Writer facades obtained from ThreadpoolIo::writer
MaxCycles == 2     \* write cycles (calls of WriteDriver::buffer) per run
MaxSync == 2       \* kernel results consumed by one run of the flush loop

VARIABLES
    wstate,        \* WriteDriver.state : WriteState (behind the mutex)
    wlock,         \* the state mutex: "free", or held for ever ("deadlock", "spin")
    kwrite,        \* kernel writes in flight (StartThreadpoolIo issued, no callback yet)
    accepted,      \* bytes of the latest cycle the kernel reported as written
    offered,       \* bytes of the latest cycle handed to buffer() and push_encodable
    writers,       \* the Writer facades: Writer.writing and what the caller holds
    ncycle,        \* number of write cycles installed so far
    wpanic,        \* None, or the panic message of the thread that panicked
    wwoken,        \* tasks whose waker has been invoked
    lastPush,      \* outcome of the latest push_encodable
    wInstallOver,  \* tag of the WriteState the latest buffer() overwrote
    kfailed,       \* whether the kernel has failed a write
    wparked        \* history: the task of the most recent poll of the flush
                   \* future if that poll returned Pending and its waker was
                   \* not invoked since (a set of at most one task)

wvars == <<wstate, wlock, kwrite, accepted, offered, writers, ncycle, wpanic,
           wwoken, lastPush, wInstallOver, kfailed, wparked>>

VARIABLES
    rbuf,        \* Reader.buf: [mem, len, cap]
    didx,        \* LinesDecoder.index
    rqueue,      \* ReadDriver.queue
    rwaker,      \* ReadDriver.waker
    kread,       \* kernel reads in flight on the handle
    readers,     \* per Reader facade: [created, reading, obj]
    nstream,     \* calls of Reader::stream so far
    rwoken,      \* tasks woken since they last polled
    rpanic,      \* None, or the message of a panic on the read side
    rpushed,     \* history: every result handed to wake_with_result
    rdropped,    \* history: results force_push displaced from a full queue
    rseen,       \* history: what poll_next popped from the queue
    rinput,      \* bytes the device has not sent yet
    rdelivered,  \* history: bytes of the successful kernel reads, in order
    rsync,       \* history: some read completed synchronously
    rkerr,       \* history: some kernel read failed
    rundecoded,  \* history: content of the buffer when the last drain ended
    lastComp     \* history: the last successful completion callback

rvars == <<rbuf, didx, rqueue, rwaker, kread, readers, nstream, rwoken, rpanic, rpushed,
           rdropped, rseen, rinput, rdelivered, rsync, rkerr, rundecoded,
           lastComp>>

VARIABLES
    dkind,       \* which pool object this run drops: "io", "timer", "wait", "work"
    dpc,         \* how far the drop of the pool object has come
    darmed,      \* the OS holds a source of callbacks (pending I/O, set timer or wait)
    dqueued,     \* callbacks the OS has queued and not started
    drunning,    \* callbacks executing
    dshared,     \* the state the callbacks dereference: "alive" or "freed"
    dnarm        \* operations the owner has started

dvars == <<dkind, dpc, darmed, dqueued, drunning, dshared, dnarm>>

VARIABLES
    tscript,     \* plug events the message thread has not delivered yet
    tqueue,      \* plug events waiting in the upstream stream
    tclosed,     \* the upstream stream has ended
    tstate,      \* Tracking: "Streaming" or "Complete"
    tcache,      \* Tracking::Streaming.cache: port -> channel of its Sender (0: none)
    tchan,       \* the oneshot channels created by TrackedPort::track
    temitted,    \* history: the items poll_next returned
    tdone,       \* history: the plug events poll_next consumed
    tioerr,      \* history: TrackedPort::track failed with an OS error
    tpanic       \* None, or the panic message of the consumer

tvars == <<tscript, tqueue, tclosed, tstate, tcache, tchan, temitted, tdone,
           tioerr, tpanic>>

VARIABLES
    kcb,         \* the submitted work callback: "queued", "running", "done", "cancelled"
    kinner,      \* Oneshot.inner holds the closure
    kresult,     \* Shared.result: None, "Real" (the closure's value) or "Synth"
    kwaker,      \* Shared.waker is Some
    kwoken,      \* the future's task was woken since its last poll
    kguard,      \* WorkOncePoolGuard: "alive" or "dropped"
    kruns,       \* history: times the closure was called
    kcancels,    \* calls of cancel_with so far
    kgot,        \* history: the values the future's polls returned Ready with
    kafter,      \* history: outcome of the latest poll made after a Ready
    klastCancel, \* history: Shared.result before and after the latest cancel_with
    kprevented,  \* history: None, or the call that cancelled the queued callback
    kpanic       \* None, or the panic message of the worker thread

kvars == <<kcb, kinner, kresult, kwaker, kwoken, kguard, kruns, kcancels, kgot,
           kafter, klastCancel, kprevented, kpanic>>

VARIABLES
    akind,        \* the pool of this run: "WaitPool" or "EventListener"
    astarted,     \* WaitPool.started
    aresult,      \* Shared.result / WaitState.result: None, "Ok", "Timeout", "Cancelled"
    awaker,       \* Shared.waker is Some
    awoken,       \* the future's task was woken since its last poll
    aarmed,       \* the OS holds a wait set by SetThreadpoolWait
    aqueued,      \* callbacks the OS has queued, with their waitresult
    anarm,        \* waits armed so far
    astarts,      \* calls of start so far
    apanic,       \* None, or the panic message of the owner
    aconsumed,    \* history: a poll has returned the stored result
    asince,       \* history: a callback ran since the latest successful restart
    arestarted,   \* history: a restart has succeeded
    acancelled,   \* history: cancel has been called
    amustCancel,  \* history: cancel found no stored result and no restart followed
    alastStart,   \* history: the latest call of start
    alastRestart, \* history: the latest call of restart
    alastCancel,  \* history: the latest call of cancel
    alastPoll     \* history: what the latest poll returned

avars == <<akind, astarted, aresult, awaker, awoken, aarmed, aqueued, anarm,
           astarts, apanic, aconsumed, asince, arestarted, acancelled,
           amustCancel, alastStart, alastRestart, alastCancel, alastPoll>>

VARIABLES
    mgen,         \* timers created by TimerPool::oneshot and periodic so far
    mkinds,       \* the kind of each timer created: "oneshot" or "periodic"
    mtimer,       \* the latest timer: "none", "created", "started"
    marmed,       \* 0, or the timer the OS holds armed
    mcbq,         \* callbacks the OS has queued, by the timer that armed them
    mtimeouts,    \* Shared.timeouts, by the timer whose callback pushed the tick
    mstopped,     \* Shared.stopped
    mwaker,       \* Shared.waker is Some
    mwoken,       \* the consumer's task was woken since its last poll
    mwatch,       \* Watch of the latest timer: "Incomplete", "Complete"
    msignal,      \* Inner.signal of the latest timer's Signal
    mpoll,        \* the poll in progress: "idle", "checked" (TimerFuture),
                  \* "running", "registered" (TimerStream)
    mpanic,       \* None, or the panic message of the consumer
    mfires,       \* times the OS has queued timer_callback
    mcancelGen,   \* history: the timer that was the latest at the latest cancel
    mpolledAfter, \* history: a poll began after the cancel of the latest timer
    mlastPoll,    \* history: what the latest poll returned
    mlastReady,   \* history: the timer of the tick that made the future Ready
    mlastFire,    \* history: the latest run of Shared::fire
    mlastPop,     \* history: the latest timeouts.pop() of the stream
    mfiredSince,  \* history: firings since the consumer last emptied the queue
    mrun          \* history: ticks the consumer received since the latest firing

mvars == <<mgen, mkinds, mtimer, marmed, mcbq, mtimeouts, mstopped, mwaker,
           mwoken, mwatch, msignal, mpoll, mpanic, mfires, mcancelGen,
           mpolledAfter, mlastPoll, mlastReady, mlastFire, mlastPop,
           mfiredSince, mrun>>

VARIABLES
    hstreams,     \* the streams handed out by listen() and not dropped
    hwindow,      \* the dispatcher's window: "starting", "open", "failed",
                  \* "destroyed"
    hthread,      \* the dispatcher thread: "running", "returned"
    hqueue,       \* DeviceNotificationData.queue
    hwaker,       \* DeviceNotificationData.waker: 0, or the stream it wakes
    hwoken,       \* the streams woken since their last poll
    hended,       \* the streams that have returned Ready(None)
    hlistener,         \* the listener: "alive", "posted" (joining), "dropped"
    hevents,      \* device-change messages delivered so far
    hcrash,       \* the process crashed in the drop of a mistyped Arc
    hlast,        \* history: what the latest poll of each stream returned
    hreleased     \* history: strong references the dispatcher thread released

hvars == <<hstreams, hwindow, hthread, hqueue, hwaker, hwoken, hended, hlistener,
           hevents, hcrash, hlast, hreleased>>

VARIABLES
    gkind,        \* what is watched: "future" or "stream"
    gready,       \* the answer the mock is set to: 0, 1, 2
    gwatch,       \* Watch: "Incomplete", "Complete"
    gsignal,      \* Inner.signal
    gwaker,       \* Inner.waker is Some
    gwoken,       \* the task awaiting the Signal was woken since its last poll
    gpanic,       \* None, or the panic message of Watch
    gdone,        \* history: the watched object returned Ready or Ready(None)
    gitems,       \* history: items the watched stream has handed out
    glastPoll,    \* history: what the latest poll of the Watch returned
    glastSignal,  \* history: the latest poll of the Signal
    gpolledAfter  \* history: the latest poll of the Watch came after gdone

gvars == <<gkind, gready, gwatch, gsignal, gwaker, gwoken, gpanic, gdone,
           gitems, glastPoll, glastSignal, gpolledAfter>>

VARIABLES
    ochan         \* the channels made with oneshot(), each a record of its
                  \* Sender, event, armed wait, WaitState and history

ovars == <<ochan>>

\* The subsystems added after the timer pool.
yvars == <<hvars, gvars, ovars>>

\* The subsystems of the service crate and of the pools' public API.
xvars == <<tvars, kvars, avars, mvars, yvars>>

vars == <<wvars, rvars, dvars, xvars>>

Writers == 1..MaxWriters

(***************************************************************************)
(* enum WriteState                                                         *)
(***************************************************************************)
Inert == [tag |-> "Inert", waker |-> NoWaker, len |-> 0, cap |-> 0, cycle |-> 0,
          result |-> None]

Writing(waker, len, cap, cycle) ==
    [tag |-> "Writing", waker |-> waker, len |-> len, cap |-> cap,
     cycle |-> cycle, result |-> None]

Flushing(waker, len, cap, cycle) ==
    [tag |-> "Flushing", waker |-> waker, len |-> len, cap |-> cap,
     cycle |-> cycle, result |-> None]

Complete(waker, result, cycle) ==
    [tag |-> "Complete", waker |-> waker, len |-> 0, cap |-> 0,
     cycle |-> cycle, result |-> result]

\* WriteState::wake_with_result: store Complete, then wake the stored waker.
WakeWithResult(waker, result, cycle) ==
    [state |-> Complete(waker, result, cycle),
     woken |-> {waker[i] : i \in 1..Len(waker)}]

(***************************************************************************)
(* The kernel side of WriteOverlapped::write_overlapped: a call either     *)
(* completes synchronously with n bytes, stays pending, or fails.  "Spin"  *)
(* stands for a kernel that answers Ok(0) to this and every later call.    *)
(***************************************************************************)
KOk(n) == [k |-> "Ok", n |-> n]
KPending == [k |-> "Pending", n |-> 0]
KErr == [k |-> "Err", n |-> 0]
KSpin == [k |-> "Spin", n |-> 0]

KResults(len) == {KOk(n) : n \in 0..len} \cup {KPending, KErr, KSpin}

KScripts(len) == UNION {[1..k -> KResults(len)] : k \in 1..MaxSync}

FlushOutcome(state, lock, issued, acc, panic, failed, done) ==
    [state |-> state, lock |-> lock, issued |-> issued, acc |-> acc,
     panic |-> panic, failed |-> failed, done |-> done]

\* The loop of WriteDriver::flush over the kernel's answers in `script`.
\* `done` says that the loop left through a break exactly at the script's end.
RECURSIVE FlushLoop(_, _, _, _, _, _)
FlushLoop(waker, len, cap, cycle, script, acc) ==
    IF script = <<>>
    THEN FlushOutcome(Inert, "free", {}, acc, None, FALSE, FALSE)
    ELSE LET r == Head(script)
             last == Len(script) = 1
         IN CASE r.k = "Pending" ->
                    FlushOutcome(Flushing(waker, len, cap, cycle), "free",
                                 {[cycle |-> cycle, req |-> len]}, acc, None,
                                 FALSE, last)
              [] r.k = "Err" ->
                    FlushOutcome(Complete(waker, "Err", cycle), "free", {},
                                 acc, None, TRUE, last)
              [] r.k = "Spin" ->
                    FlushOutcome(Inert, "spin", {}, acc, None, FALSE,
                                 last /\ len > 0)
              [] r.k = "Ok" ->
                    IF r.n > len
                    THEN FlushOutcome(Inert, "free", {}, acc, None, FALSE, FALSE)
                    ELSE IF len - r.n = 0
                         THEN FlushOutcome(Complete(waker, "Ok", cycle), "free",
                                           {}, acc + r.n, None, FALSE, last)
                         ELSE FlushLoop(waker, len - r.n, cap, cycle,
                                        Tail(script), acc + r.n)

\* WriteDriver::flush.  `held` says that the calling thread already holds the
\* state mutex (parking_lot's Mutex is not reentrant: the second lock() never
\* returns).  `state` is what the mutex guards when flush is entered.
Flush(state, held, script) ==
    IF held
    THEN FlushOutcome(state, "deadlock", {}, 0, None, FALSE, TRUE)
    ELSE IF state.tag = "Inert"
    THEN FlushOutcome(Inert, "free", {}, 0,
                      "WriteState::Inert cannot call flush", FALSE, TRUE)
    ELSE IF state.tag = "Complete"
    THEN FlushOutcome(Inert, "free", {}, 0,
                      "WriteState::Complete cannot call flush", FALSE, TRUE)
    ELSE FlushLoop(state.waker, state.len, state.cap, state.cycle, script, 0)

(***************************************************************************)
(* Writer facade (io/mod.rs).  writing: None | "unsignalled" | "signalled" *)
(* is Writer.writing (the Signal of the latest buffer() call); obj is what *)
(* the caller holds: "none", "sink" (a Sink), "flush" (the Watch<Flush>),  *)
(* "await" (a buffer() future parked on the previous Signal).              *)
(***************************************************************************)
NoPush == [tag |-> None, n |-> 0, used |-> 0, cap |-> 0, result |-> None,
           after |-> 0]

NoWriter == [created |-> FALSE, writing |-> None, obj |-> "none"]

WInit ==
    /\ wstate = Inert
    /\ wlock = "free"
    /\ kwrite = {}
    /\ accepted = 0
    /\ offered = 0
    /\ writers = [w \in Writers |-> NoWriter]
    /\ ncycle = 0
    /\ wpanic = None
    /\ wwoken = {}
    /\ lastPush = NoPush
    /\ wInstallOver = None
    /\ kfailed = FALSE
    /\ wparked = {}

WRunning == wpanic = None /\ wlock = "free"

\* ThreadpoolIo::writer: a fresh facade whose `writing` is None.
NewWriter(w) ==
    /\ wpanic = None
    /\ ~writers[w].created
    /\ writers' = [writers EXCEPT ![w] = [created |-> TRUE, writing |-> None,
                                          obj |-> "none"]]
    /\ UNCHANGED <<wstate, wlock, kwrite, accepted, offered, ncycle, wpanic,
                   wwoken, lastPush, wInstallOver, kfailed, wparked>>
    /\ UNCHANGED <<rvars, dvars, xvars>>

\* WriteDriver::buffer: overwrite the state with Writing(None, bytes).
DriverBuffer(len, cap) == Writing(NoWaker, len, cap, ncycle + 1)

\* Writer::buffer: replace `writing` by a new Signal, await the previous one
\* (if any), then install the buffer and hand out the Sink.
WriterBuffer(w, len, cap) ==
    /\ wpanic = None
    /\ writers[w].created /\ writers[w].obj = "none"
    /\ ncycle < MaxCycles
    /\ IF writers[w].writing = "unsignalled"
       THEN /\ writers' = [writers EXCEPT ![w].obj = "await"]
            /\ UNCHANGED <<wstate, accepted, offered, ncycle, wInstallOver>>
       ELSE /\ wlock = "free"
            /\ wstate' = DriverBuffer(len, cap)
            /\ wInstallOver' = wstate.tag
            /\ ncycle' = ncycle + 1
            /\ offered' = len
            /\ accepted' = 0
            /\ writers' = [writers EXCEPT ![w].writing = "unsignalled",
                                          ![w].obj = "sink"]
    /\ UNCHANGED <<wlock, kwrite, wpanic, wwoken, lastPush, kfailed, wparked>>
    /\ UNCHANGED <<rvars, dvars, xvars>>

\* WriteDriver::push_encodable for an item whose sink_encode_len is n.
PushEncodable(state, n) ==
    IF state.tag # "Writing"
    THEN [state |-> state, result |-> "panic"]
    ELSE IF n < state.cap - state.len
         THEN [state |-> [state EXCEPT !.len = @ + n], result |-> "Ok"]
         ELSE [state |-> state, result |-> "BufferFull"]

SinkPushEncodable(w, n) ==
    /\ WRunning
    /\ writers[w].obj = "sink"
    /\ LET out == PushEncodable(wstate, n)
       IN /\ wstate' = out.state
          /\ lastPush' = [tag |-> wstate.tag, n |-> n, used |-> wstate.len,
                          cap |-> wstate.cap, result |-> out.result,
                          after |-> out.state.len]
          /\ wpanic' = IF out.result = "panic"
                       THEN "WriteState cannot call push_encodable" ELSE None
          /\ offered' = IF out.result = "Ok" THEN offered + n ELSE offered
    /\ UNCHANGED <<wlock, kwrite, accepted, writers, ncycle, wwoken,
                   wInstallOver, kfailed, wparked>>
    /\ UNCHANGED <<rvars, dvars, xvars>>

\* Sink::flush: run WriteDriver::flush and hand out the Watch<Flush> future.
SinkFlush(w) ==
    /\ WRunning
    /\ writers[w].obj = "sink"
    /\ \E script \in KScripts(wstate.len) :
         LET out == Flush(wstate, FALSE, script)
         IN /\ out.done
            /\ wstate' = out.state
            /\ wlock' = out.lock
            /\ wpanic' = out.panic
            /\ kwrite' = kwrite \cup out.issued
            /\ kfailed' = (kfailed \/ out.failed)
            /\ accepted' = accepted + out.acc
    /\ writers' = [writers EXCEPT ![w].obj = "flush"]
    /\ UNCHANGED <<offered, ncycle, wwoken, lastPush, wInstallOver, wparked>>
    /\ UNCHANGED <<rvars, dvars, xvars>>

\* WriteDriver::poll with the waker of task w.
DriverPoll(state, w) ==
    CASE state.tag = "Flushing" ->
            [state |-> Flushing(SomeWaker(w), state.len, state.cap, state.cycle),
             ready |-> FALSE, result |-> None, panic |-> None]
      [] state.tag = "Complete" ->
            [state |-> Inert, ready |-> TRUE, result |-> state.result,
             panic |-> None]
      [] OTHER ->
            [state |-> Inert, ready |-> FALSE, result |-> None,
             panic |-> "unreachable"]

\* Watch<Flush>::poll: poll the driver; on Ready raise the Signal.
FlushPoll(w) ==
    /\ WRunning
    /\ writers[w].obj = "flush"
    /\ LET out == DriverPoll(wstate, w)
       IN /\ wstate' = out.state
          /\ wpanic' = out.panic
          /\ writers' = IF out.ready
                        THEN [writers EXCEPT ![w].writing = "signalled",
                                             ![w].obj = "none"]
                        ELSE writers
          /\ wparked' = IF out.ready \/ out.panic # None THEN {} ELSE {w}
    /\ UNCHANGED <<wlock, kwrite, accepted, offered, ncycle, wwoken, lastPush,
                   wInstallOver, kfailed>>
    /\ UNCHANGED <<rvars, dvars, xvars>>

\* The caller drops what it holds: a Sink that was never flushed, a Watch<Flush>
\* that has not resolved, or a buffer() future parked on the previous Signal.
\* Nothing raises the Signal that belongs to the dropped object.
WriterDrop(w) ==
    /\ wpanic = None
    /\ writers[w].obj \in {"sink", "flush", "await"}
    /\ writers' = [writers EXCEPT ![w].obj = "none",
                                  ![w].writing = "unsignalled"]
    /\ wparked' = wparked \ {w}
    /\ UNCHANGED <<wstate, wlock, kwrite, accepted, offered, ncycle, wpanic,
                   wwoken, lastPush, wInstallOver, kfailed>>
    /\ UNCHANGED <<rvars, dvars, xvars>>

\* WriteDriver::completion(io_result, bytes_transferred).
Completion(state, ok, n) ==
    IF state.tag \in {"Inert", "Complete"}
    THEN [state |-> Inert, lock |-> "free", woken |-> {},
          panic |-> "cannot call write_complete"]
    ELSE IF ~ok
    THEN LET o == WakeWithResult(state.waker, "Err", state.cycle)
         IN [state |-> o.state, lock |-> "free", woken |-> o.woken,
             panic |-> None]
    ELSE IF n > state.len
    THEN [state |-> Inert, lock |-> "free", woken |-> {},
          panic |-> "cannot advance past remaining"]
    ELSE IF state.len - n > 0
    THEN LET f == Flush(Inert, TRUE, <<>>)
         IN [state |-> f.state, lock |-> f.lock, woken |-> {},
             panic |-> f.panic]
    ELSE LET o == WakeWithResult(state.waker, "Ok", state.cycle)
         IN [state |-> o.state, lock |-> "free", woken |-> o.woken,
             panic |-> None]

\* io_callback for a completion block tagged Write.
WriteCallback(op, ok, n) ==
    /\ WRunning
    /\ op \in kwrite
    /\ n \in 1..op.req
    /\ kwrite' = kwrite \ {op}
    /\ LET out == Completion(wstate, ok, n)
       IN /\ wstate' = out.state
          /\ wlock' = out.lock
          /\ wpanic' = out.panic
          /\ wwoken' = wwoken \cup out.woken
          /\ wparked' = wparked \ out.woken
    /\ accepted' = IF ok /\ op.cycle = ncycle THEN accepted + n ELSE accepted
    /\ kfailed' = (kfailed \/ ~ok)
    /\ UNCHANGED <<offered, writers, ncycle, lastPush, wInstallOver>>
    /\ UNCHANGED <<rvars, dvars, xvars>>

WNext ==
    \/ \E w \in Writers : NewWriter(w)
    \/ \E w \in Writers, len \in 0..MaxLen, cap \in {MaxLen} :
          WriterBuffer(w, len, cap)
    \/ \E w \in Writers, n \in 1..MaxLen : SinkPushEncodable(w, n)
    \/ \E w \in Writers : SinkFlush(w)
    \/ \E w \in Writers : FlushPoll(w)
    \/ \E w \in Writers : WriterDrop(w)
    \/ \E op \in kwrite, ok \in BOOLEAN, n \in 1..MaxLen : WriteCallback(op, ok, n)

(***************************************************************************)
(* Claims about the write side.                                            *)
(***************************************************************************)
WritersCreated == {w \in Writers : writers[w].created}

\* C1: a write of L bytes on which no kernel write fails ends, however the
\* kernel splits the transfer, in Complete(Ok) with exactly L bytes accepted.
\* Stated on the runs with one Writer, for the moment at which the flushed
\* cycle has no kernel write left in flight: the state is then Complete(Ok)
\* and the kernel has accepted every byte that was offered.
C1_WriteEndsCompleteOk ==
    \A w \in Writers :
        ( /\ WritersCreated = {w}
          /\ writers[w].obj = "flush"
          /\ kwrite = {}
          /\ ~kfailed
          /\ wlock # "spin" )
        => /\ wstate.tag = "Complete"
           /\ wstate.result = "Ok"
           /\ accepted = offered

\* C6: buffer() installs a new buffer only when no earlier cycle is still in
\* Writing or Flushing.
C6_OneWriteCycle == wInstallOver \notin {"Writing", "Flushing"}

\* C10: in state Writing push_encodable succeeds, and appends the item,
\* exactly when encoded_len + used <= capacity; otherwise it answers
\* BufferFull and leaves the buffer as it was.
C10_PushEncodableFits ==
    lastPush.tag = "Writing" =>
        /\ (lastPush.result = "Ok") <=> (lastPush.n + lastPush.used <= lastPush.cap)
        /\ lastPush.result = "Ok" => lastPush.after = lastPush.used + lastPush.n
        /\ lastPush.result = "BufferFull" => lastPush.after = lastPush.used

(***************************************************************************)
(* Read side: ReadDriver, Reader (io/drive.rs), LinesDecoder               *)
(* (codec/lines.rs), start_read_stream (io/overlapped.rs) and the Reader   *)
(* facade with DecodeStream (io/mod.rs, io/futures.rs).                    *)
(*                                                                         *)
(* The device behind the handle sends one of the byte streams of Inputs;   *)
(* the kernel decides how the stream is cut into reads.  U marks a cell of *)
(* the buffer's allocation that nothing has written yet; a byte read from  *)
(* such a cell is a line feed or some other byte G.                        *)
(***************************************************************************)
Capacity == 6      \* ThreadpoolOptions.capacity, bytes of the read buffer
QueueCap == 2      \* ThreadpoolOptions.queue, slots of the completion queue
MaxInput == 7      \* bytes the device sends in one run
MaxReaders == 2    \* Reader facades obtained from ThreadpoolIo::reader
MaxStreams == 2    \* calls of Reader::stream per run

LF == "LF"
CR == "CR"
U == "?"
G == "g"
Garbage == {LF, G}
\* A byte that str::from_utf8 rejects.
Bad == "x"
InvalidUtf8 == {Bad}

\* The lines "a\r\n", "b\r\n" and the empty line "\r\n".
LineA == <<"a", CR, LF>>
LineB == <<"b", CR, LF>>
LineEmpty == <<CR, LF>>
Take(seq, n) == SubSeq(seq, 1, n)
Drop(seq, n) == SubSeq(seq, n + 1, Len(seq))
Inputs == {Take(LineA \o LineB \o LineA \o LineB, MaxInput),
           Take(LineEmpty \o LineA \o LineB \o LineA, MaxInput)}
ShortInputs == {LineA}
\* A line that is not UTF-8, then the line "a\r\n".
LineBad == <<Bad, CR, LF>>
DecodeInputs == {LineBad \o LineA}

Readers == 1..MaxReaders

\* Result<D::Item, StreamError<D::Error>>
OkItem(v) == [k |-> "Ok", v |-> v]
ErrOs == [k |-> "Os", v |-> <<>>]
ErrEof == [k |-> "Eof", v |-> <<>>]
ErrDecode == [k |-> "Decode", v |-> <<>>]
ErrQueueFull == [k |-> "QueueFull", v |-> <<>>]

\* BytesMut: mem is the allocation from the view's first byte on, len the
\* logical length, cap the capacity.
Buf(mem, len, cap) == [mem |-> mem, len |-> len, cap |-> cap]
WithCapacity(c) == Buf([i \in 1..c |-> U], 0, c)
View(buf) == SubSeq(buf.mem, 1, buf.len)
SetLen(buf, n) == [buf EXCEPT !.len = n]
SplitTo(buf, at) ==
    Buf(SubSeq(buf.mem, at + 1, Len(buf.mem)), buf.len - at, buf.cap - at)

\* ReadFile(handle, bytes.as_mut_ptr(), bytes.capacity(), ..): the kernel
\* stores the chunk at the head of the buffer.
ReadFile(buf, chunk) ==
    [buf EXCEPT !.mem = chunk \o SubSeq(buf.mem, Len(chunk) + 1, Len(buf.mem))]

\* Cells a logical length of n exposes although nothing wrote them; the
\* bytes read from them are arbitrary.
Exposed(buf, n) == {i \in 1..n : buf.mem[i] = U}
Resolve(buf, fill) ==
    [buf EXCEPT !.mem = [i \in 1..Len(buf.mem) |->
                            IF i \in DOMAIN fill THEN fill[i] ELSE buf.mem[i]]]

Utf8Valid(bytes) == \A i \in 1..Len(bytes) : bytes[i] \notin InvalidUtf8

Min(S) == CHOOSE x \in S : \A y \in S : x <= y

\* LinesDecoder::decode.  kind: "Some" (an item), "None", "Err" (not UTF-8),
\* "Panic" (the slice src[index..len] with index > len).
LinesDecode(buf, idx) ==
    IF idx > buf.len
    THEN [kind |-> "Panic", item |-> <<>>, buf |-> buf, idx |-> idx]
    ELSE LET hits == {i \in (idx + 1)..buf.len : buf.mem[i] = LF} IN
         IF hits # {}
         THEN LET at == Min(hits)
                  line == SubSeq(buf.mem, 1, at)
                  rest == SplitTo(buf, at)
              IN  IF Len(line) > 2
                  THEN IF Utf8Valid(SubSeq(line, 1, Len(line) - 2))
                       THEN [kind |-> "Some", item |-> SubSeq(line, 1, Len(line) - 2),
                             buf |-> rest, idx |-> idx]
                       ELSE [kind |-> "Err", item |-> <<>>, buf |-> rest, idx |-> idx]
                  ELSE [kind |-> "None", item |-> <<>>, buf |-> rest, idx |-> idx]
         ELSE [kind |-> "None", item |-> <<>>, buf |-> buf, idx |-> buf.len]

\* The part of the read side the driver's routines work on.
ReadSide(buf, idx, queue, pushed, dropped, woken, panic) ==
    [buf |-> buf, idx |-> idx, queue |-> queue, pushed |-> pushed,
     dropped |-> dropped, woken |-> woken, panic |-> panic]

SeqSum(lens) == LET RECURSIVE Sum(_)
                    Sum(k) == IF k = 0 THEN 0 ELSE lens[k] + Sum(k - 1)
                IN  Sum(Len(lens))

\* ArrayQueue::force_push: a full queue gives up its oldest element.
ForcePush(rs, x) ==
    IF Len(rs.queue) = QueueCap
    THEN [rs EXCEPT !.queue = Tail(rs.queue) \o <<x>>,
                    !.pushed = rs.pushed \o <<x>>,
                    !.dropped = rs.dropped \o <<Head(rs.queue)>>]
    ELSE [rs EXCEPT !.queue = rs.queue \o <<x>>,
                    !.pushed = rs.pushed \o <<x>>]

\* ReadDriver::wake_with_result
ReadWakeWithResult(rs, result, waker) ==
    LET one == ForcePush(rs, result)
        two == IF QueueCap = 1 THEN ForcePush(one, ErrQueueFull) ELSE one
    IN  [two EXCEPT !.woken = rs.woken \cup {waker[i] : i \in 1..Len(waker)}]

\* while let Poll::Ready(result) = reader.decode() { wake_with_result(result) }
RECURSIVE Drain(_, _)
Drain(rs, waker) ==
    LET d == LinesDecode(rs.buf, rs.idx) IN
    CASE d.kind = "Panic" ->
            [rs EXCEPT !.panic = "range start index out of range for slice"]
      [] d.kind = "None" -> [rs EXCEPT !.buf = d.buf, !.idx = d.idx]
      [] d.kind = "Some" ->
            Drain(ReadWakeWithResult([rs EXCEPT !.buf = d.buf, !.idx = d.idx],
                                     OkItem(d.item), waker), waker)
      [] OTHER ->
            Drain(ReadWakeWithResult([rs EXCEPT !.buf = d.buf, !.idx = d.idx],
                                     ErrDecode, waker), waker)

(***************************************************************************)
(* The kernel side of a start: lens are the byte counts of the reads that  *)
(* complete synchronously, data their bytes; the read after them answers   *)
(* term: "Pending" (it stays in flight) or "Os" (it fails).                *)
(***************************************************************************)
Smaller(a, b) == IF a <= b THEN a ELSE b
SyncLens(cap, budget) ==
    {l \in UNION {[1..k -> 1..Smaller(cap, budget)] : k \in 0..MaxSync} :
        SeqSum(l) <= budget}
SyncChunk(data, lens, j) ==
    SubSeq(data, SeqSum(SubSeq(lens, 1, j - 1)) + 1, SeqSum(SubSeq(lens, 1, j)))

\* start_read_stream with start_read inlined: every synchronous read stores
\* its bytes at the head of the buffer and sets the length to its own count.
StartReadStream(buf, data, lens) ==
    LET RECURSIVE Loop(_, _)
        Loop(b, j) ==
            IF j > Len(lens) THEN b
            ELSE Loop(SetLen(ReadFile(b, SyncChunk(data, lens, j)), lens[j]), j + 1)
    IN  Loop(buf, 1)

\* Cells the final set_len(count) of ReadDriver::start exposes unwritten.
StartExposed(buf, data, lens, term) ==
    LET s == StartReadStream(buf, data, lens) IN
    IF term = "Pending" /\ SeqSum(lens) <= s.cap
    THEN Exposed(s, SeqSum(lens)) ELSE {}

\* Builds in which set_len past the capacity can end: with debug assertions
\* BytesMut::set_len panics, without them the length is stored.
Builds(buf, lens, term) ==
    IF term = "Pending" /\ SeqSum(lens) > buf.cap
    THEN {"debug", "release"} ELSE {"debug"}

\* ReadDriver::start.  issued: the read left in flight; und: the bytes the
\* last drain that was handed new bytes left in the buffer.
DriverStart(rs, waker, data, lens, term, fill, build, und) ==
    LET s == StartReadStream(rs.buf, data, lens)
        count == SeqSum(lens)
    IN  IF term = "Os"
        THEN [rs |-> ReadWakeWithResult([rs EXCEPT !.buf = s], ErrOs, waker),
              issued |-> 0, und |-> und]
        ELSE IF count > s.cap
        THEN [rs |-> IF build = "debug"
                     THEN [rs EXCEPT !.buf = s, !.panic = "set_len out of bounds"]
                     ELSE [rs EXCEPT !.buf = SetLen(s, count),
                                     !.panic = "length past capacity"],
              issued |-> 1, und |-> und]
        ELSE LET r == Drain([rs EXCEPT !.buf = Resolve(SetLen(s, count), fill)],
                            waker)
             IN  [rs |-> r, issued |-> 1,
                  und |-> IF count > 0 THEN View(r.buf) ELSE und]

\* ReadDriver::completion on ERROR_SUCCESS, up to the restart.
CompletionDrain(rs, waker, chunk) ==
    Drain([rs EXCEPT !.buf = SetLen(ReadFile(rs.buf, chunk), Len(chunk))], waker)

NoReader == [created |-> FALSE, reading |-> None, obj |-> "none"]
NoCompletion == [left |-> <<>>, chunk |-> <<>>, seen |-> <<>>]

RInit(inputs) ==
    /\ rbuf = WithCapacity(Capacity)
    /\ didx = 0
    /\ rqueue = <<>>
    /\ rwaker = NoWaker
    /\ kread = 0
    /\ readers = [r \in Readers |-> NoReader]
    /\ nstream = 0
    /\ rwoken = {}
    /\ rpanic = None
    /\ rpushed = <<>>
    /\ rdropped = <<>>
    /\ rseen = <<>>
    /\ rinput \in inputs
    /\ rdelivered = <<>>
    /\ rsync = FALSE
    /\ rkerr = FALSE
    /\ rundecoded = <<>>
    /\ lastComp = NoCompletion

RSide == ReadSide(rbuf, didx, rqueue, rpushed, rdropped, rwoken, rpanic)
Budget == Len(rinput)

\* The variables a run of ReadDriver::start leaves behind.
AfterStart(o, data, lens, term) ==
    /\ rbuf' = o.rs.buf
    /\ didx' = o.rs.idx
    /\ rqueue' = o.rs.queue
    /\ rpushed' = o.rs.pushed
    /\ rdropped' = o.rs.dropped
    /\ rwoken' = o.rs.woken
    /\ rpanic' = o.rs.panic
    /\ rundecoded' = o.und
    /\ rdelivered' = rdelivered \o data
    /\ rinput' = Drop(rinput, Len(data))
    /\ rsync' = (rsync \/ Len(lens) > 0)
    /\ rkerr' = (rkerr \/ term = "Os")

\* ThreadpoolIo::reader
NewReader(r) ==
    /\ rpanic = None
    /\ ~readers[r].created
    /\ readers' = [readers EXCEPT ![r] = [NoReader EXCEPT !.created = TRUE]]
    /\ UNCHANGED <<rbuf, didx, rqueue, rwaker, kread, nstream, rwoken, rpanic,
                   rpushed, rdropped, rseen, rinput, rdelivered, rsync, rkerr,
                   rundecoded, lastComp>>
    /\ UNCHANGED <<wvars, dvars, xvars>>

\* Reader::stream: a call whose Reader holds the Signal of an earlier stream
\* that has not ended parks on it; otherwise the first read is started.
ReaderStream(r, data, lens, term, fill, build) ==
    /\ rpanic = None
    /\ readers[r].created
    /\ readers[r].obj = "none"
    /\ nstream < MaxStreams
    /\ nstream' = nstream + 1
    /\ IF readers[r].reading = "unsignalled"
       THEN /\ data = <<>> /\ lens = <<>> /\ term = "Pending" /\ fill = <<>>
            /\ build = "debug"
            /\ readers' = [readers EXCEPT ![r].obj = "await"]
            /\ UNCHANGED <<rbuf, didx, rqueue, rwaker, kread, rpushed, rdropped,
                           rwoken, rpanic, rseen, rinput, rdelivered, rsync, rkerr,
                           rundecoded,
                           lastComp>>
       ELSE LET o == DriverStart(RSide, rwaker, data, lens, term, fill, build,
                                 rundecoded)
            IN  /\ AfterStart(o, data, lens, term)
                /\ kread' = kread + o.issued
                /\ readers' = [readers EXCEPT ![r].reading = "unsignalled",
                                              ![r].obj = "stream"]
                /\ UNCHANGED <<rwaker, rseen, lastComp>>
    /\ UNCHANGED <<wvars, dvars, xvars>>

\* Every error ends the stream.
StreamEndsOnError(item) == item.k # "Ok"

\* The queued results that stand for the end of the stream: Eof in
\* ReadDriver::poll_next, QueueFull in DecodeStream::poll_next.
StreamEnds(item) == item.k \in {"Eof", "QueueFull"}

\* DecodeStream::poll_next over ReadDriver::poll_next, polled through Watch:
\* the waker is stored, the oldest queued result is popped; Eof and
\* QueueFull end the stream, which fires the Signal of the Watch.
StreamPoll(r) ==
    /\ rpanic = None
    /\ readers[r].obj = "stream"
    /\ rwaker' = SomeWaker(r)
    /\ rwoken' = rwoken \ {r}
    /\ IF rqueue = <<>>
       THEN UNCHANGED <<rqueue, rseen, readers>>
       ELSE /\ rqueue' = Tail(rqueue)
            /\ rseen' = rseen \o <<Head(rqueue)>>
            /\ IF StreamEnds(Head(rqueue))
               THEN readers' = [readers EXCEPT ![r].reading = "signalled",
                                               ![r].obj = "none"]
               ELSE UNCHANGED readers
    /\ UNCHANGED <<rbuf, didx, kread, nstream, rpanic, rpushed, rdropped,
                   rinput, rdelivered, rsync, rkerr, rundecoded, lastComp>>
    /\ UNCHANGED <<wvars, dvars, xvars>>

\* The caller drops the stream, or the parked stream() future, it holds.
ReaderDrop(r) ==
    /\ rpanic = None
    /\ readers[r].obj \in {"stream", "await"}
    /\ readers' = [readers EXCEPT ![r].obj = "none"]
    /\ UNCHANGED <<rbuf, didx, rqueue, rwaker, kread, nstream, rwoken, rpanic,
                   rpushed, rdropped, rseen, rinput, rdelivered, rsync, rkerr,
                   rundecoded, lastComp>>
    /\ UNCHANGED <<wvars, dvars, xvars>>

\* io_callback -> ReadDriver::completion with a failure code.
ReadCallbackErr ==
    /\ rpanic = None
    /\ kread > 0
    /\ kread' = kread - 1
    /\ LET rs == ReadWakeWithResult(RSide, ErrOs, rwaker) IN
           /\ rqueue' = rs.queue
           /\ rpushed' = rs.pushed
           /\ rdropped' = rs.dropped
           /\ rwoken' = rs.woken
    /\ rkerr' = TRUE
    /\ UNCHANGED <<rbuf, didx, rwaker, readers, nstream, rpanic, rseen,
                   rinput, rdelivered, rsync, rundecoded, lastComp>>
    /\ UNCHANGED <<wvars, dvars, xvars>>

\* io_callback -> ReadDriver::completion with ERROR_SUCCESS and the bytes
\* of chunk transferred: set the length, drain, start the next read.
ReadCallbackOk(n) ==
    /\ rpanic = None
    /\ kread > 0
    /\ n <= Smaller(rbuf.cap, Budget)
    /\ LET chunk == Take(rinput, n)
           seen == View(SetLen(ReadFile(rbuf, chunk), Len(chunk)))
           rs1 == CompletionDrain(RSide, rwaker, chunk)
       IN  /\ lastComp' = [left |-> rundecoded, chunk |-> chunk, seen |-> seen]
           /\ IF rs1.panic # None
              THEN /\ AfterStart([rs |-> rs1, und |-> rundecoded], chunk, <<>>,
                                 "Pending")
                   /\ kread' = kread - 1
              ELSE \E lens \in SyncLens(rs1.buf.cap, Budget - Len(chunk)),
                      term \in {"Pending", "Os"} :
                   \E fill \in [StartExposed(rs1.buf,
                                    Take(Drop(rinput, Len(chunk)), SeqSum(lens)),
                                    lens, term) -> Garbage],
                      build \in Builds(rs1.buf, lens, term) :
                       LET data == Take(Drop(rinput, Len(chunk)), SeqSum(lens))
                           o == DriverStart(rs1, rwaker, data, lens, term, fill,
                                            build, View(rs1.buf))
                       IN  /\ AfterStart(o, chunk \o data, lens, term)
                           /\ kread' = kread - 1 + o.issued
    /\ UNCHANGED <<rwaker, readers, nstream, rseen>>
    /\ UNCHANGED <<wvars, dvars, xvars>>

RNext(tasks) ==
    \/ \E r \in tasks : NewReader(r)
    \/ \E r \in tasks, term \in {"Pending", "Os"} :
       \E lens \in SyncLens(rbuf.cap, Budget) :
       \E fill \in [StartExposed(rbuf, Take(rinput, SeqSum(lens)), lens, term)
                        -> Garbage],
          build \in Builds(rbuf, lens, term) :
           ReaderStream(r, Take(rinput, SeqSum(lens)), lens, term, fill, build)
    \/ \E r \in tasks : StreamPoll(r)
    \/ \E r \in tasks : ReaderDrop(r)
    \/ ReadCallbackErr
    \/ \E n \in 0..Capacity : ReadCallbackOk(n)

(***************************************************************************)
(* Claims about the read side.                                             *)
(***************************************************************************)
\* The items the completion path pushes when the bytes B arrive as a single
\* chunk in a fresh buffer.
SingleChunk(B) ==
    CompletionDrain(ReadSide(WithCapacity(Capacity), 0, <<>>, <<>>, <<>>, {}, None),
                    NoWaker, B).pushed

\* C2: whatever the split of the bytes B into successful read completions,
\* the items the completion path pushes are those it pushes when B arrives
\* as a single chunk.
C2_DecoderResumable ==
    (~rsync /\ ~rkerr /\ Len(rdelivered) <= Capacity)
        => rpushed = SingleChunk(rdelivered)

\* C3: a push into a full completion queue discards no result that was
\* already queued: the consumer is handed every queued result, in order.
\* Stated on the runs in which every read completed through the callback.
C3_OverflowLosesNothing ==
    ~rsync => /\ rdropped = <<>>
              /\ rseen \o rqueue = rpushed

QueueFullPlaced ==
    \/ \E i \in 1..Len(rqueue) : rqueue[i] = ErrQueueFull
    \/ \E i \in 1..Len(rseen) : rseen[i] = ErrQueueFull

\* C4: once a result has been pushed while the queue (capacity >= 2) was
\* full, a QueueFull marker is in the queue or has been handed to the
\* consumer, and the consumer is handed no more than one.
C4_OverflowPlacesQueueFull ==
    /\ (~rsync /\ rdropped # <<>>) => QueueFullPlaced
    /\ Cardinality({i \in 1..Len(rseen) : rseen[i] = ErrQueueFull}) <= 1

\* C7: at most one kernel read is in flight on the handle.
C7_OneReadInFlight == kread <= 1

\* C8: a successful completion of n bytes extends the logical length by n:
\* the decoder is shown the bytes the last drain left undecoded followed by
\* the n new bytes.  Stated for n > 0 on the runs in which every read
\* completed through the callback.
C8_CompletionExtends ==
    (~rsync /\ lastComp.chunk # <<>>)
        => lastComp.seen = lastComp.left \o lastComp.chunk

\* C9: the logical length of the read buffer never exceeds its capacity.
C9_LenWithinCapacity == rbuf.len <= rbuf.cap

(***************************************************************************)
(* Drop of a pool object.  ThreadpoolIo, TimerPool, WaitPool and           *)
(* WorkOncePool declare the OS registration as their first field and the   *)
(* Arc of the state the callbacks dereference after it, so a drop runs     *)
(* Drop of the registration handle and then releases the shared state.     *)
(* Drop of the handle is: stop (timer and wait only), wait for callbacks   *)
(* with WaitPending::Cancel, Close.  The OS queues a callback when a       *)
(* source fires, starts queued callbacks on its threads, and on the wait   *)
(* cancels the queued ones and blocks while one is executing.              *)
(***************************************************************************)
MaxArm == 2        \* operations the owner starts on one pool object
MaxQueued == 2     \* callbacks queued, and callbacks executing, at a time

Pools == {"io", "timer", "wait", "work"}

DInit(kinds) ==
    /\ dkind \in kinds
    /\ dpc = "live"
    /\ darmed = FALSE
    /\ dqueued = 0
    /\ drunning = 0
    /\ dshared = "alive"
    /\ dnarm = 0

\* The owner starts an operation: a read or write behind StartThreadpoolIo,
\* SetThreadpoolTimer, SetThreadpoolWait; SubmitThreadpoolWork (once) queues
\* its callback at once.
PoolStart ==
    /\ dpc = "live"
    /\ dnarm < (IF dkind = "work" THEN 1 ELSE MaxArm)
    /\ dnarm' = dnarm + 1
    /\ IF dkind = "work"
       THEN /\ dqueued < MaxQueued
            /\ dqueued' = dqueued + 1
            /\ UNCHANGED darmed
       ELSE /\ ~darmed
            /\ darmed' = TRUE
            /\ UNCHANGED dqueued
    /\ UNCHANGED <<dkind, dpc, drunning, dshared>>
    /\ UNCHANGED <<wvars, rvars, xvars>>

\* The source fires (the I/O completes, the timer is due, the waited object
\* is signalled or times out): the OS queues the callback.  A periodic timer
\* stays set.
OsFire(again) ==
    /\ darmed
    /\ dqueued < MaxQueued
    /\ again => dkind = "timer"
    /\ dqueued' = dqueued + 1
    /\ darmed' = again
    /\ UNCHANGED <<dkind, dpc, drunning, dshared, dnarm>>
    /\ UNCHANGED <<wvars, rvars, xvars>>

\* A pool thread enters io_callback, timer_callback, wait_callback or
\* work_once_callback.
CallbackStart ==
    /\ dqueued > 0
    /\ drunning < MaxQueued
    /\ dqueued' = dqueued - 1
    /\ drunning' = drunning + 1
    /\ UNCHANGED <<dkind, dpc, darmed, dshared, dnarm>>
    /\ UNCHANGED <<wvars, rvars, xvars>>

\* The callback returns.  The read callback of the I/O pool has started the
\* next read before it returns (ReadDriver::completion), the write callback
\* may have (WriteDriver::completion); the other callbacks start nothing.
CallbackEnd(restart) ==
    /\ drunning > 0
    /\ restart => dkind = "io" /\ ~darmed
    /\ drunning' = drunning - 1
    /\ darmed' = (darmed \/ restart)
    /\ UNCHANGED <<dkind, dpc, dqueued, dshared, dnarm>>
    /\ UNCHANGED <<wvars, rvars, xvars>>

\* Drop for Owned*Handle begins: OwnedTimerHandle and OwnedWaitHandle call
\* stop(), after which the OS queues no new callback; OwnedThreadpoolIoHandle
\* and OwnedWorkHandle have nothing of the kind.
DropBegin ==
    /\ dpc = "live"
    /\ dpc' = "dropping"
    /\ darmed' = IF dkind \in {"timer", "wait"} THEN FALSE ELSE darmed
    /\ UNCHANGED <<dkind, dqueued, drunning, dshared, dnarm>>
    /\ UNCHANGED <<wvars, rvars, xvars>>

\* self.wait(WaitPending::Cancel) returns: no callback is executing, the
\* queued ones are cancelled.
DropWait ==
    /\ dpc = "dropping"
    /\ drunning = 0
    /\ dqueued' = 0
    /\ dpc' = "waited"
    /\ UNCHANGED <<dkind, darmed, drunning, dshared, dnarm>>
    /\ UNCHANGED <<wvars, rvars, xvars>>

\* CloseThreadpoolIo / Timer / Wait / Work; Drop of the handle returns.
DropClose ==
    /\ dpc = "waited"
    /\ dpc' = "closed"
    /\ UNCHANGED <<dkind, darmed, dqueued, drunning, dshared, dnarm>>
    /\ UNCHANGED <<wvars, rvars, xvars>>

\* The fields after the registration are dropped: the Arc of the shared
\* state is released, and the drop of the pool object returns.
DropShared ==
    /\ dpc = "closed"
    /\ dpc' = "returned"
    /\ dshared' = "freed"
    /\ UNCHANGED <<dkind, darmed, dqueued, drunning, dnarm>>
    /\ UNCHANGED <<wvars, rvars, xvars>>

DNext ==
    \/ PoolStart
    \/ \E again \in BOOLEAN : OsFire(again)
    \/ CallbackStart
    \/ \E restart \in BOOLEAN : CallbackEnd(restart)
    \/ DropBegin
    \/ DropWait
    \/ DropClose
    \/ DropShared

\* C5: for every pool type, once Drop of the registration has returned no
\* callback of the pool is executing (none was left running and none starts
\* later), and the shared state is freed only with the registration closed.
C5_DropQuiescesCallbacks ==
    /\ dpc \in {"closed", "returned"} => drunning = 0
    /\ dshared = "freed" => dpc = "returned"

(***************************************************************************)
(* The plug-event tracker of the service crate (device.rs): Tracking,     *)
(* TrackedPort, Unplugged and the oneshot channel of util/wait.rs.         *)
(***************************************************************************)
MaxEvents == 4     \* plug events in one run

Ports == {"COM4", "COM7", "COM9"}

\* UsbVidPid { vid, pid }
VidPid(v, p) == <<v, p>>

\* What scan() finds in the registry: COM9 is missing from it.
Registry ==
    [p \in {"COM4", "COM7"} |->
        IF p = "COM4" THEN VidPid("2FE3", "0001") ELSE VidPid("2FE3", "0002")]

\* The ids given to DeviceStreamExt::track.
Filter == {VidPid("2FE3", "0001")}

Plug(p) == [ev |-> "Plug", port |-> p]
Unplug(p) == [ev |-> "Unplug", port |-> p]

ScanFor(p) ==
    IF p \in DOMAIN Registry
    THEN [ok |-> TRUE, id |-> Registry[p]]
    ELSE [ok |-> FALSE, id |-> VidPid("", "")]

\* The event sequences of the runs.
TrackScripts ==
    { <<Plug("COM4"), Unplug("COM4"), Plug("COM7"), Unplug("COM7")>>,
      <<Plug("COM4"), Plug("COM4"), Unplug("COM4"), Unplug("COM4")>>,
      <<Unplug("COM4"), Plug("COM9"), Plug("COM4"), Unplug("COM4")>>,
      <<Plug("COM4"), Unplug("COM4"), Plug("COM4")>> }

\* Items of the Tracking stream.
Tracked(c, p) == [tag |-> "Tracked", chan |-> c, port |-> p]
ErrScan(p) == [tag |-> "Scan", chan |-> 0, port |-> p]
ErrIo(p) == [tag |-> "Io", chan |-> 0, port |-> p]
NoItem == [tag |-> "None", chan |-> 0, port |-> ""]

\* wait::oneshot(): a manual-reset event, unset, with the wait armed on it;
\* WaitState::default(); the Sender goes to the cache, the Receiver into
\* Unplugged::Waiting.  unplugAfter is history: an Unplug of the port was
\* consumed after the channel was made.
Oneshot(p) ==
    [port |-> p, sender |-> "cached", event |-> FALSE, result |-> None,
     waker |-> FALSE, woken |-> FALSE, fut |-> "Waiting", resolved |-> 0,
     unplugAfter |-> FALSE]

\* Sender::set consumes the Sender and signals the event.
SenderSet(ch) == [ch EXCEPT !.sender = "set", !.event = TRUE]

\* HashMap::insert returns the Sender it displaced, which is dropped
\* unsignalled (Sender has no Drop impl).
SenderDrop(ch) == [ch EXCEPT !.sender = "dropped"]

\* The loop of Tracking::poll_next in state Streaming: consumes events until
\* one produces an item or the upstream has none.
RECURSIVE TrackLoop(_, _, _)
TrackLoop(ts, trackOk, closed) ==
    IF ts.queue = <<>>
    THEN [ts EXCEPT !.out = IF closed THEN "End" ELSE "Pending"]
    ELSE
        LET e == Head(ts.queue)
            t1 == [ts EXCEPT !.queue = Tail(@), !.done = Append(@, e)]
        IN  IF e.ev = "Plug"
            THEN
                LET s == ScanFor(e.port) IN
                IF ~s.ok
                THEN [t1 EXCEPT !.out = "Item", !.item = ErrScan(e.port)]
                ELSE IF s.id \notin Filter
                THEN TrackLoop(t1, trackOk, closed)
                ELSE IF ~trackOk
                THEN [t1 EXCEPT !.out = "Item", !.item = ErrIo(e.port),
                                !.ioerr = TRUE]
                ELSE
                    LET c == Len(t1.chan) + 1
                        old == t1.cache[e.port]
                        kept == IF old = 0 THEN t1.chan
                                ELSE [t1.chan EXCEPT ![old] = SenderDrop(@)]
                    IN  [t1 EXCEPT !.chan = Append(kept, Oneshot(e.port)),
                                   !.cache[e.port] = c,
                                   !.out = "Item",
                                   !.item = Tracked(c, e.port)]
            ELSE
                LET c == t1.cache[e.port]
                    marked == [i \in 1..Len(t1.chan) |->
                                  IF t1.chan[i].port = e.port
                                  THEN [t1.chan[i] EXCEPT !.unplugAfter = TRUE]
                                  ELSE t1.chan[i]]
                IN  IF c = 0
                    THEN TrackLoop([t1 EXCEPT !.chan = marked], trackOk, closed)
                    ELSE TrackLoop(
                            [t1 EXCEPT !.chan = [marked EXCEPT ![c] = SenderSet(@)],
                                       !.cache[e.port] = 0],
                            trackOk, closed)

\* project_replace(Self::Complete) drops the Streaming state and with it the
\* cache: every Sender still in it is dropped unsignalled.
CacheDrop(chan, cache) ==
    [c \in 1..Len(chan) |->
        IF \E p \in Ports : cache[p] = c THEN SenderDrop(chan[c]) ELSE chan[c]]

tothers == <<wvars, rvars, dvars, kvars, avars, mvars, yvars>>

TInit(scripts) ==
    /\ tscript \in scripts
    /\ tqueue = <<>>
    /\ tclosed = FALSE
    /\ tstate = "Streaming"
    /\ tcache = [p \in Ports |-> 0]
    /\ tchan = <<>>
    /\ temitted = <<>>
    /\ tdone = <<>>
    /\ tioerr = FALSE
    /\ tpanic = None

\* The message thread hands the next plug event to the upstream stream.
UpstreamDeliver ==
    /\ tscript # <<>>
    /\ tqueue' = Append(tqueue, Head(tscript))
    /\ tscript' = Tail(tscript)
    /\ UNCHANGED <<tclosed, tstate, tcache, tchan, temitted, tdone, tioerr, tpanic>>
    /\ UNCHANGED tothers

\* The upstream stream ends.
UpstreamClose ==
    /\ tscript = <<>>
    /\ ~tclosed
    /\ tclosed' = TRUE
    /\ UNCHANGED <<tscript, tqueue, tstate, tcache, tchan, temitted, tdone, tioerr,
                   tpanic>>
    /\ UNCHANGED tothers

\* Tracking::poll_next
TrackingPollNext(trackOk) ==
    /\ tpanic = None
    /\ IF tstate = "Complete"
       THEN /\ tpanic' = "Watch must not be polled after stream has finished"
            /\ UNCHANGED <<tqueue, tstate, tcache, tchan, temitted, tdone, tioerr>>
       ELSE LET o == TrackLoop([queue |-> tqueue, cache |-> tcache, chan |-> tchan,
                                done |-> tdone, ioerr |-> tioerr,
                                out |-> "Pending", item |-> NoItem],
                               trackOk, tclosed)
            IN  /\ tqueue' = o.queue
                /\ tcache' = IF o.out = "End" THEN [p \in Ports |-> 0] ELSE o.cache
                /\ tchan' = IF o.out = "End" THEN CacheDrop(o.chan, o.cache)
                            ELSE o.chan
                /\ tdone' = o.done
                /\ tioerr' = o.ioerr
                /\ tstate' = IF o.out = "End" THEN "Complete" ELSE tstate
                /\ temitted' = IF o.out = "Item" THEN Append(temitted, o.item)
                               ELSE temitted
                /\ UNCHANGED tpanic
    /\ UNCHANGED <<tscript, tclosed>>
    /\ UNCHANGED tothers

\* oneshot_callback: the armed wait fires once the event is signalled.
OneshotCallback(c) ==
    /\ c \in 1..Len(tchan)
    /\ tchan[c].event
    /\ tchan[c].result = None
    /\ tchan' = [tchan EXCEPT ![c].result = "Ok", ![c].woken = tchan[c].waker]
    /\ UNCHANGED <<tscript, tqueue, tclosed, tstate, tcache, temitted, tdone, tioerr,
                   tpanic>>
    /\ UNCHANGED tothers

\* Unplugged::poll over Receiver::poll
UnpluggedPoll(c) ==
    /\ tpanic = None
    /\ c \in 1..Len(tchan)
    /\ IF tchan[c].fut = "Complete"
       THEN /\ tpanic' = "Unplugged cannot be polled after complete"
            /\ UNCHANGED tchan
       ELSE IF tchan[c].result # None
       THEN /\ tchan' = [tchan EXCEPT ![c].fut = "Complete", ![c].waker = FALSE,
                                      ![c].woken = @ \/ tchan[c].waker,
                                      ![c].resolved = @ + 1]
            /\ UNCHANGED tpanic
       ELSE /\ tchan' = [tchan EXCEPT ![c].waker = TRUE]
            /\ UNCHANGED tpanic
    /\ UNCHANGED <<tscript, tqueue, tclosed, tstate, tcache, temitted, tdone, tioerr>>
    /\ UNCHANGED tothers

TNext ==
    \/ UpstreamDeliver
    \/ UpstreamClose
    \/ \E trackOk \in BOOLEAN : TrackingPollNext(trackOk)
    \/ \E c \in 1..MaxEvents : OneshotCallback(c)
    \/ \E c \in 1..MaxEvents : UnpluggedPoll(c)

PlugInFilter(e) == e.ev = "Plug" /\ ScanFor(e.port).ok /\ ScanFor(e.port).id \in Filter
IsTracked(item) == item.tag = "Tracked"

\* Number of TrackedPorts among items, of Plugs within the filter among events.
CountTracked(items) == Cardinality({i \in 1..Len(items) : IsTracked(items[i])})
CountPlugInFilter(events) ==
    Cardinality({i \in 1..Len(events) : PlugInFilter(events[i])})

\* C11: the tracker emits one TrackedPort for each consumed Plug whose ids
\* are in the filter and nothing but errors otherwise, an unplugged future
\* resolves at most once, and every TrackedPort whose port saw a later
\* Unplug has its channel signalled, so that its future resolves.
C11_TrackerPairsPlugUnplug ==
    /\ ~tioerr => CountTracked(temitted) = CountPlugInFilter(tdone)
    /\ \A c \in 1..Len(tchan) : tchan[c].resolved <= 1
    /\ \A c \in 1..Len(tchan) : tchan[c].unplugAfter => tchan[c].event

(***************************************************************************)
(* The work-once pool (work/mod.rs): WorkOncePoolGuard, WorkOnceFuture,    *)
(* Oneshot and work_once_callback.  The state after once(f): the work is   *)
(* submitted and the guard returned.                                       *)
(***************************************************************************)
MaxCancel == 2     \* calls of cancel_with in one run

\* A wait that leaves the queued callback in place.
WaitForCallbacksNoCancel(cb, cancel) == cb

\* WaitForThreadpoolWorkCallbacks(work, cancel) returns with no callback
\* executing; with cancel it removes the callback that has not started.
WaitForCallbacks(cb, cancel) ==
    IF cancel /\ cb = "queued" THEN "cancelled" ELSE cb

kothers == <<wvars, rvars, dvars, tvars, avars, mvars, yvars>>

KInit ==
    /\ kcb = "queued"
    /\ kinner = TRUE
    /\ kresult = None
    /\ kwaker = FALSE
    /\ kwoken = FALSE
    /\ kguard = "alive"
    /\ kruns = 0
    /\ kcancels = 0
    /\ kgot = <<>>
    /\ kafter = None
    /\ klastCancel = [before |-> None, after |-> None]
    /\ kprevented = None
    /\ kpanic = None

\* work_once_callback up to the call of the closure: Oneshot::take
WorkCallbackStart ==
    /\ kcb = "queued"
    /\ kpanic = None
    /\ IF kinner
       THEN /\ kinner' = FALSE
            /\ kruns' = kruns + 1
            /\ kcb' = "running"
            /\ UNCHANGED kpanic
       ELSE /\ kpanic' = "The work once routine has been executed more than once!"
            /\ kcb' = "done"
            /\ UNCHANGED <<kinner, kruns>>
    /\ UNCHANGED <<kresult, kwaker, kwoken, kguard, kcancels, kgot, kafter,
                   klastCancel, kprevented>>
    /\ UNCHANGED kothers

\* work_once_callback from the return of the closure
WorkCallbackEnd ==
    /\ kcb = "running"
    /\ kcb' = "done"
    /\ kresult' = "Real"
    /\ kwaker' = FALSE
    /\ kwoken' = (kwoken \/ kwaker)
    /\ UNCHANGED <<kinner, kguard, kruns, kcancels, kgot, kafter, klastCancel,
                   kprevented, kpanic>>
    /\ UNCHANGED kothers

\* WorkOncePoolGuard::cancel_with: returns from wait(Cancel) once no
\* callback executes, then try_take and the store of the supplied result.
CancelWith ==
    /\ kguard = "alive"
    /\ kcb # "running"
    /\ kcancels < MaxCancel
    /\ kcb' = WaitForCallbacks(kcb, TRUE)
    /\ kprevented' = IF kcb' # kcb THEN "cancel_with" ELSE kprevented
    /\ kinner' = FALSE
    /\ kresult' = "Synth"
    /\ klastCancel' = [before |-> kresult, after |-> kresult']
    /\ kwaker' = FALSE
    /\ kwoken' = (kwoken \/ kwaker)
    /\ kcancels' = kcancels + 1
    /\ UNCHANGED <<kguard, kruns, kgot, kafter, kpanic>>
    /\ UNCHANGED kothers

\* WorkOncePoolGuard::wait(WaitPending::Cancel)
GuardWaitCancel ==
    /\ kguard = "alive"
    /\ kcb = "queued"
    /\ kcb' = WaitForCallbacks(kcb, TRUE)
    /\ kprevented' = IF kcb' # kcb THEN "wait" ELSE kprevented
    /\ UNCHANGED <<kinner, kresult, kwaker, kwoken, kguard, kruns, kcancels, kgot,
                   kafter, klastCancel, kpanic>>
    /\ UNCHANGED kothers

\* Drop of the guard: Drop for OwnedWorkHandle, then the guard's Arc.
GuardDrop ==
    /\ kguard = "alive"
    /\ kcb # "running"
    /\ kguard' = "dropped"
    /\ kcb' = WaitForCallbacks(kcb, TRUE)
    /\ kprevented' = IF kcb' # kcb THEN "drop" ELSE kprevented
    /\ UNCHANGED <<kinner, kresult, kwaker, kwoken, kruns, kcancels, kgot, kafter,
                   klastCancel, kpanic>>
    /\ UNCHANGED kothers

\* WorkOnceFuture::poll
WorkOnceFuturePoll ==
    /\ IF kresult # None
       THEN /\ kgot' = Append(kgot, kresult)
            /\ kresult' = None
            /\ kafter' = IF kgot # <<>> THEN "Ready" ELSE kafter
            /\ UNCHANGED kwaker
       ELSE /\ kwaker' = TRUE
            /\ kafter' = IF kgot # <<>> THEN "Pending" ELSE kafter
            /\ UNCHANGED <<kgot, kresult>>
    /\ kwoken' = FALSE
    /\ UNCHANGED <<kcb, kinner, kguard, kruns, kcancels, klastCancel, kprevented,
                   kpanic>>
    /\ UNCHANGED kothers

KNext ==
    \/ WorkCallbackStart
    \/ WorkCallbackEnd
    \/ CancelWith
    \/ GuardWaitCancel
    \/ GuardDrop
    \/ WorkOnceFuturePoll

\* C12: when cancel_with(x) finds the closure's result stored and not yet
\* taken by the future, that result stays in place: x is installed only
\* when no real result is present.
C12_RealResultWins ==
    klastCancel.before = "Real" => klastCancel.after = "Real"

\* C13: cancel_with never keeps the submitted closure from running: a
\* cancel_with called before a worker started the callback leaves the
\* callback to run.
C13_CancelNeverPreventsRun ==
    kprevented = "cancel_with" => kcb # "cancelled"

C15_PollAfterReadyPanics ==
    /\ Len(kgot) <= 1
    /\ kafter # None => kafter = "Panic"

(***************************************************************************)
(* The wait pool: WaitPool, WaitFuture and wait_callback of the runtime    *)
(* crate (wait/mod.rs) and EventListener, Waiting and wait_callback of the *)
(* service crate (util/wait.rs).  The two differ in start only.            *)
(***************************************************************************)
MaxWaits == 3      \* waits armed (start and restart) in one run

WaitKinds == {"WaitPool", "EventListener"}

\* The waitresult values wait_callback accepts.
WaitResults == {"Ok", "Timeout"}

\* Shared::maybe_wake_with(result) (EventListener::cancel inlines it): a
\* stored result stays, an empty slot takes the result and the waker is
\* taken and woken.
MaybeWakeWith(sh, result) ==
    IF sh.result # None
    THEN sh
    ELSE [sh EXCEPT !.result = result, !.woken = sh.woken \/ sh.waker,
                    !.waker = FALSE]

\* A restart that reads the stored result and leaves it in place.
RestartPeek(result) ==
    [ok |-> result # None, result |-> result]

\* `shared.result.take().ok_or(WaitError::InProgress)?` of restart.
RestartTake(result) ==
    [ok |-> result # None, result |-> None]

NoStart == [n |-> 0, pending |-> FALSE, outcome |-> None]
NoRestart == [before |-> None, consumed |-> FALSE, ret |-> None, armed |-> FALSE]
NoCancel == [before |-> None, hadWaker |-> FALSE, woke |-> FALSE]

aothers == <<wvars, rvars, dvars, tvars, kvars, mvars, yvars>>

AInit(kinds) ==
    /\ akind \in kinds
    /\ astarted = FALSE
    /\ aresult = None
    /\ awaker = FALSE
    /\ awoken = FALSE
    /\ aarmed = FALSE
    /\ aqueued = <<>>
    /\ anarm = 0
    /\ astarts = 0
    /\ apanic = None
    /\ aconsumed = FALSE
    /\ asince = FALSE
    /\ arestarted = FALSE
    /\ acancelled = FALSE
    /\ amustCancel = FALSE
    /\ alastStart = NoStart
    /\ alastRestart = NoRestart
    /\ alastCancel = NoCancel
    /\ alastPoll = None

\* WaitPool::start tests its started flag, EventListener::start the stored
\* result.
StartAllowed ==
    IF akind = "WaitPool" THEN ~astarted ELSE aresult = None

\* WaitPool::start, EventListener::start
WaitStart ==
    /\ apanic = None
    /\ anarm < MaxWaits
    /\ astarts' = astarts + 1
    /\ IF StartAllowed
       THEN /\ astarted' = (akind = "WaitPool")
            /\ aarmed' = TRUE
            /\ anarm' = anarm + 1
            /\ alastStart' = [n |-> astarts', pending |-> aresult = None,
                              outcome |-> "Ok"]
            /\ UNCHANGED apanic
       ELSE /\ apanic' = "Cannot start waiting more than once! use restart instead"
            /\ alastStart' = [n |-> astarts', pending |-> aresult = None,
                              outcome |-> "Panic"]
            /\ UNCHANGED <<astarted, aarmed, anarm>>
    /\ UNCHANGED <<akind, aresult, awaker, awoken, aqueued, aconsumed, asince, arestarted,
                   acancelled, amustCancel, alastRestart, alastCancel, alastPoll>>
    /\ UNCHANGED aothers

\* WaitPool::restart, EventListener::restart
WaitRestart ==
    /\ apanic = None
    /\ anarm < MaxWaits
    /\ LET t == RestartTake(aresult) IN
        /\ aresult' = t.result
        /\ aarmed' = (t.ok \/ aarmed)
        /\ anarm' = IF t.ok THEN anarm + 1 ELSE anarm
        /\ asince' = IF t.ok THEN FALSE ELSE asince
        /\ arestarted' = (t.ok \/ arestarted)
        /\ amustCancel' = IF t.ok THEN FALSE ELSE amustCancel
        /\ aconsumed' = IF t.ok THEN FALSE ELSE aconsumed
        /\ alastRestart' = [before |-> aresult, consumed |-> aconsumed,
                            ret |-> IF t.ok THEN "Ok" ELSE "InProgress",
                            armed |-> t.ok]
    /\ UNCHANGED <<akind, astarted, awaker, awoken, aqueued, astarts, apanic,
                   acancelled, alastStart, alastCancel, alastPoll>>
    /\ UNCHANGED aothers

\* WaitPool::cancel, EventListener::cancel: stop() disarms the wait and
\* leaves the queued callbacks; then maybe_wake_with(Err(Cancelled)).
WaitCancel ==
    /\ apanic = None
    /\ LET sh == MaybeWakeWith([result |-> aresult, waker |-> awaker,
                                woken |-> awoken], "Cancelled")
       IN  /\ aresult' = sh.result
           /\ awaker' = sh.waker
           /\ awoken' = sh.woken
           /\ alastCancel' = [before |-> aresult, hadWaker |-> awaker,
                              woke |-> sh.woken]
    /\ aarmed' = FALSE
    /\ acancelled' = TRUE
    /\ amustCancel' = (amustCancel \/ aresult = None)
    /\ aconsumed' = IF aresult = None THEN FALSE ELSE aconsumed
    /\ UNCHANGED <<akind, astarted, aqueued, anarm, astarts, apanic, asince, arestarted,
                   alastStart, alastRestart, alastPoll>>
    /\ UNCHANGED aothers

\* The waited object is signalled or the timeout expires: the OS queues
\* the callback of the armed wait.
OsSignal(waitresult) ==
    /\ aarmed
    /\ aarmed' = FALSE
    /\ aqueued' = Append(aqueued, waitresult)
    /\ UNCHANGED <<akind, astarted, aresult, awaker, awoken, anarm, astarts, apanic,
                   aconsumed, asince, arestarted, acancelled, amustCancel, alastStart,
                   alastRestart, alastCancel, alastPoll>>
    /\ UNCHANGED aothers

\* wait_callback
WaitCallback ==
    /\ aqueued # <<>>
    /\ aqueued' = Tail(aqueued)
    /\ aresult' = Head(aqueued)
    /\ awoken' = (awoken \/ awaker)
    /\ aconsumed' = FALSE
    /\ asince' = TRUE
    /\ UNCHANGED <<akind, astarted, awaker, aarmed, anarm, astarts, apanic,
                   arestarted, acancelled, amustCancel, alastStart, alastRestart,
                   alastCancel, alastPoll>>
    /\ UNCHANGED aothers

\* WaitFuture::poll, Waiting::poll
WaitFuturePoll ==
    /\ apanic = None
    /\ anarm > 0
    /\ IF aresult # None
       THEN /\ alastPoll' = aresult
            /\ aconsumed' = TRUE
            /\ awaker' = FALSE
            /\ awoken' = awaker
       ELSE /\ alastPoll' = "Pending"
            /\ awaker' = TRUE
            /\ awoken' = FALSE
            /\ UNCHANGED aconsumed
    /\ UNCHANGED <<akind, astarted, aresult, aarmed, aqueued, anarm, astarts, apanic,
                   asince, arestarted, acancelled, amustCancel, alastStart,
                   alastRestart, alastCancel>>
    /\ UNCHANGED aothers

ANext ==
    \/ WaitStart
    \/ WaitRestart
    \/ WaitCancel
    \/ \E waitresult \in WaitResults : OsSignal(waitresult)
    \/ WaitCallback
    \/ WaitFuturePoll

\* C16: after cancel() on a pool with no stored result the stored result is
\* Err(Cancelled) from then on, whatever callback the OS had queued, and
\* the waker registered at the time was woken.
C16_CancelResolvesCancelled ==
    /\ amustCancel => aresult = "Cancelled"
    /\ (alastCancel.before = None /\ alastCancel.hadWaker) => alastCancel.woke

\* C17: a second start without a restart in between panics, the first
\* wait pending or complete, for WaitPool and for EventListener.
C17_SecondStartPanics ==
    (alastStart.n >= 2 /\ ~arestarted) => alastStart.outcome = "Panic"

\* The pool was started once and never cancelled.
PlainUse == astarts <= 1 /\ ~acancelled

C19_RestartKeepsUnconsumed ==
    (alastRestart.before \in WaitResults /\ ~alastRestart.consumed)
        => alastRestart.ret = "InProgress"

(***************************************************************************)
(* The timer pool (timer/mod.rs): TimerPool, OneshotTimer, PeriodicTimer,  *)
(* TimerFuture and TimerStream under Watch (futures/watch.rs), Shared and  *)
(* timer_callback.  A callback and a tick carry the number of the timer    *)
(* that armed them; the code's ticks are units.                            *)
(***************************************************************************)
MaxTimers == 2     \* calls of TimerPool::oneshot and periodic in one run
TimerCap == 2      \* TimerThreadpoolOptions.capacity of the run
MaxFires == 3      \* times the OS queues timer_callback in one run

TimerKinds == {"oneshot", "periodic"}

\* A push that ignores the capacity of the queue.
FireUnbounded(timeouts, tick) == Append(timeouts, tick)

\* Shared::fire: ArrayQueue::push, whose Err on a full queue is ignored.
Fire(timeouts, tick) ==
    IF Len(timeouts) < TimerCap THEN Append(timeouts, tick) ELSE timeouts

NoFire == [full |-> FALSE, len |-> 0, hadWaker |-> FALSE, woke |-> FALSE]
NoPop == [result |-> None, fired |-> 0]

mothers == <<wvars, rvars, dvars, tvars, kvars, avars, yvars>>

\* The kind of the latest timer of the pool.
mkind == IF mgen = 0 THEN None ELSE mkinds[mgen]

MInit ==
    /\ mgen = 0
    /\ mkinds = <<>>
    /\ mtimer = "none"
    /\ marmed = 0
    /\ mcbq = <<>>
    /\ mtimeouts = <<>>
    /\ mstopped = FALSE
    /\ mwaker = FALSE
    /\ mwoken = FALSE
    /\ mwatch = "none"
    /\ msignal = FALSE
    /\ mpoll = "idle"
    /\ mpanic = None
    /\ mfires = 0
    /\ mcancelGen = 0
    /\ mpolledAfter = FALSE
    /\ mlastPoll = None
    /\ mlastReady = 0
    /\ mlastFire = NoFire
    /\ mlastPop = NoPop
    /\ mfiredSince = 0
    /\ mrun = 0

\* TimerPool::oneshot: the new Signal replaces self.timer; a previous
\* Signal is awaited; then Shared::reset.
TimerOneshot ==
    /\ mpanic = None
    /\ mgen < MaxTimers
    /\ mpoll = "idle"
    /\ mtimer = "none" \/ msignal
    /\ mgen' = mgen + 1
    /\ mtimer' = "created"
    /\ msignal' = FALSE
    /\ mwatch' = "Incomplete"
    /\ mstopped' = FALSE
    /\ mtimeouts' = <<>>
    /\ mpolledAfter' = FALSE
    /\ mlastPoll' = None
    /\ mlastReady' = 0
    /\ mfiredSince' = 0
    /\ mrun' = 0
    /\ mkinds' = Append(mkinds, "oneshot")
    /\ UNCHANGED <<marmed, mcbq, mwaker, mwoken, mpoll, mpanic, mfires,
                   mcancelGen, mlastFire, mlastPop>>
    /\ UNCHANGED mothers

\* TimerPool::periodic: as oneshot, for a Watch<TimerStream>.
TimerPeriodic ==
    /\ mpanic = None
    /\ mgen < MaxTimers
    /\ mpoll = "idle"
    /\ mtimer = "none" \/ msignal
    /\ mgen' = mgen + 1
    /\ mtimer' = "created"
    /\ msignal' = FALSE
    /\ mwatch' = "Incomplete"
    /\ mstopped' = FALSE
    /\ mtimeouts' = <<>>
    /\ mpolledAfter' = FALSE
    /\ mlastPoll' = None
    /\ mlastReady' = 0
    /\ mfiredSince' = 0
    /\ mrun' = 0
    /\ mkinds' = Append(mkinds, "periodic")
    /\ UNCHANGED <<marmed, mcbq, mwaker, mwoken, mpoll, mpanic, mfires,
                   mcancelGen, mlastFire, mlastPop>>
    /\ UNCHANGED mothers

\* OneshotTimer::start: start_relative(due, 0, window)
OneshotStart ==
    /\ mpanic = None
    /\ mtimer = "created"
    /\ mkind = "oneshot"
    /\ mtimer' = "started"
    /\ marmed' = mgen
    /\ UNCHANGED <<mgen, mkinds, mcbq, mtimeouts, mstopped, mwaker, mwoken,
                   mwatch, msignal, mpoll, mpanic, mfires, mcancelGen,
                   mpolledAfter, mlastPoll, mlastReady, mlastFire, mlastPop,
                   mfiredSince, mrun>>
    /\ UNCHANGED mothers

\* PeriodicTimer::start: start_relative(due, period, window)
PeriodicStart ==
    /\ mpanic = None
    /\ mtimer = "created"
    /\ mkind = "periodic"
    /\ mtimer' = "started"
    /\ marmed' = mgen
    /\ UNCHANGED <<mgen, mkinds, mcbq, mtimeouts, mstopped, mwaker, mwoken,
                   mwatch, msignal, mpoll, mpanic, mfires, mcancelGen,
                   mpolledAfter, mlastPoll, mlastReady, mlastFire, mlastPop,
                   mfiredSince, mrun>>
    /\ UNCHANGED mothers

\* The due time of the armed timer passes: the OS queues timer_callback;
\* a periodic timer stays armed.
OsTimerFire ==
    /\ marmed # 0
    /\ mfires < MaxFires
    /\ mcbq' = Append(mcbq, marmed)
    /\ marmed' = IF mkinds[marmed] = "periodic" THEN marmed ELSE 0
    /\ mfires' = mfires + 1
    /\ UNCHANGED <<mgen, mkinds, mtimer, mtimeouts, mstopped, mwaker, mwoken,
                   mwatch, msignal, mpoll, mpanic, mcancelGen, mpolledAfter,
                   mlastPoll, mlastReady, mlastFire, mlastPop, mfiredSince,
                   mrun>>
    /\ UNCHANGED mothers

\* timer_callback: fire().maybe_wake_by_ref()
TimerCallback ==
    /\ mcbq # <<>>
    /\ mcbq' = Tail(mcbq)
    /\ mtimeouts' = Fire(mtimeouts, Head(mcbq))
    /\ mwoken' = (mwoken \/ mwaker)
    /\ mlastFire' = [full |-> Len(mtimeouts) >= TimerCap, len |-> Len(mtimeouts'),
            hadWaker |-> mwaker, woke |-> mwoken']
    /\ mfiredSince' = mfiredSince + 1
    /\ mrun' = 0
    /\ UNCHANGED <<mgen, mkinds, mtimer, marmed, mstopped, mwaker, mwatch,
                   msignal, mpoll, mpanic, mfires, mcancelGen, mpolledAfter,
                   mlastPoll, mlastReady, mlastPop>>
    /\ UNCHANGED mothers

\* TimerPool::cancel: pool.stop(), Shared::stop, maybe_wake_by_ref
TimerCancel ==
    /\ mpanic = None
    /\ mgen > 0
    /\ mtimer = "started"
    /\ mcancelGen # mgen
    /\ marmed' = 0
    /\ mstopped' = TRUE
    /\ mwoken' = (mwoken \/ mwaker)
    /\ mcancelGen' = mgen
    /\ mpolledAfter' = FALSE
    /\ UNCHANGED <<mgen, mkinds, mtimer, mcbq, mtimeouts, mwaker, mwatch,
                   msignal, mpoll, mpanic, mfires, mlastPoll, mlastReady,
                   mlastFire, mlastPop, mfiredSince, mrun>>
    /\ UNCHANGED mothers

\* Watch::poll over TimerFuture::poll, up to the test of timeouts.len()
TimerFuturePollCheck ==
    /\ mpanic = None
    /\ mtimer = "started"
    /\ mkind = "oneshot"
    /\ mpoll = "idle"
    /\ mwoken' = FALSE
    /\ mpolledAfter' = (mcancelGen = mgen)
    /\ IF mwatch = "Complete"
       THEN /\ mpanic' = "Watch must not be polled after it returned Poll::Ready"
            /\ UNCHANGED <<mwatch, msignal, mpoll, mlastPoll, mlastReady>>
       ELSE IF Len(mtimeouts) > 0
       THEN /\ mwatch' = "Complete"
            /\ msignal' = TRUE
            /\ mlastPoll' = "Ready"
            /\ mlastReady' = Head(mtimeouts)
            /\ UNCHANGED <<mpoll, mpanic>>
       ELSE /\ mpoll' = "checked"
            /\ UNCHANGED <<mwatch, msignal, mpanic, mlastPoll, mlastReady>>
    /\ UNCHANGED <<mgen, mkinds, mtimer, marmed, mcbq, mtimeouts, mstopped, mwaker,
                   mfires, mcancelGen, mlastFire, mlastPop, mfiredSince, mrun>>
    /\ UNCHANGED mothers

\* TimerFuture::poll from Shared::update_waker to the return of Pending
TimerFuturePollRegister ==
    /\ mpoll = "checked"
    /\ mpoll' = "idle"
    /\ mwaker' = TRUE
    /\ mlastPoll' = "Pending"
    /\ UNCHANGED <<mgen, mkinds, mtimer, marmed, mcbq, mtimeouts, mstopped,
                   mwoken, mwatch, msignal, mpanic, mfires, mcancelGen,
                   mpolledAfter, mlastReady, mlastFire, mlastPop,
                   mfiredSince, mrun>>
    /\ UNCHANGED mothers

\* Watch::poll_next over TimerStream::poll_next, up to the test of
\* is_stopped()
TimerStreamPollCheck ==
    /\ mpanic = None
    /\ mtimer = "started"
    /\ mkind = "periodic"
    /\ mpoll = "idle"
    /\ mwoken' = FALSE
    /\ mpolledAfter' = (mcancelGen = mgen)
    /\ IF mwatch = "Complete"
       THEN /\ mpanic' = "Watch must not be polled after stream has finished"
            /\ UNCHANGED <<mwatch, msignal, mpoll, mlastPoll>>
       ELSE IF mstopped
       THEN /\ mwatch' = "Complete"
            /\ msignal' = TRUE
            /\ mlastPoll' = "End"
            /\ UNCHANGED <<mpoll, mpanic>>
       ELSE /\ mpoll' = "running"
            /\ UNCHANGED <<mwatch, msignal, mpanic, mlastPoll>>
    /\ UNCHANGED <<mgen, mkinds, mtimer, marmed, mcbq, mtimeouts, mstopped, mwaker,
                   mfires, mcancelGen, mlastReady, mlastFire, mlastPop, mfiredSince,
                   mrun>>
    /\ UNCHANGED mothers

\* TimerStream::poll_next: Shared::update_waker
TimerStreamPollRegister ==
    /\ mpoll = "running"
    /\ mpoll' = "registered"
    /\ mwaker' = TRUE
    /\ UNCHANGED <<mgen, mkinds, mtimer, marmed, mcbq, mtimeouts, mstopped,
                   mwoken, mwatch, msignal, mpanic, mfires, mcancelGen,
                   mpolledAfter, mlastPoll, mlastReady, mlastFire, mlastPop,
                   mfiredSince, mrun>>
    /\ UNCHANGED mothers

\* TimerStream::poll_next: timeouts.pop() mapped to Pending or Some(())
TimerStreamPollPop ==
    /\ mpoll = "registered"
    /\ mpoll' = "idle"
    /\ mtimeouts' = IF mtimeouts = <<>> THEN <<>> ELSE Tail(mtimeouts)
    /\ mlastPoll' = IF mtimeouts = <<>> THEN "Pending" ELSE "Some"
    /\ mlastPop' = [result |-> mlastPoll', fired |-> mfiredSince]
    /\ mfiredSince' = IF Len(mtimeouts) <= 1 THEN 0 ELSE mfiredSince
    /\ mrun' = IF mtimeouts = <<>> THEN mrun ELSE mrun + 1
    /\ UNCHANGED <<mgen, mkinds, mtimer, marmed, mcbq, mstopped, mwaker,
                   mwoken, mwatch, msignal, mpanic, mfires, mcancelGen,
                   mpolledAfter, mlastReady, mlastFire>>
    /\ UNCHANGED mothers

MNext ==
    \/ TimerOneshot
    \/ TimerPeriodic
    \/ OneshotStart
    \/ PeriodicStart
    \/ OsTimerFire
    \/ TimerCallback
    \/ TimerCancel
    \/ TimerFuturePollCheck
    \/ TimerFuturePollRegister
    \/ TimerStreamPollCheck
    \/ TimerStreamPollRegister
    \/ TimerStreamPollPop

\* Nothing is left that could store a tick: no timer armed, no callback
\* queued.
TimerQuiet == marmed = 0 /\ mcbq = <<>>

\* C20: after cancel() the oneshot future of the pool completes: once a
\* poll made after the cancel has returned and nothing is left that could
\* store a tick, the future has returned Ready.
C20_CancelResolvesOneshot ==
    (mcancelGen = mgen /\ mgen > 0 /\ mtimer = "started" /\ mkind = "oneshot"
        /\ TimerQuiet /\ mpolledAfter /\ mpoll = "idle")
        => mwatch = "Complete"

\* C21: after cancel() a periodic stream does not stay Pending for ever: a
\* consumer that got Pending from its latest poll, with the timer cancelled
\* and nothing left that could store a tick, has been woken to poll again.
C21_CancelEndsPeriodic ==
    (mkind = "periodic" /\ mcancelGen = mgen /\ TimerQuiet /\ mpoll = "idle"
        /\ mwatch = "Incomplete" /\ mlastPoll = "Pending")
        => mwoken

\* C22: a oneshot future returns Ready on a tick of the timer its own
\* start() armed, never on the tick of a callback of an earlier timer.
C22_OneshotOwnTimer ==
    (mkind = "oneshot" /\ mlastPoll = "Ready") => mlastReady = mgen

\* C23: the tick queue holds at most TimerCap ticks; a firing that finds it
\* full leaves it full and wakes the registered consumer; a poll of a
\* stream that was not stopped returns Pending only if no firing happened
\* since the consumer last emptied the queue; and the consumer receives at
\* most TimerCap ticks without a firing in between.
C23_TickQueueBounded ==
    /\ Len(mtimeouts) <= TimerCap
    /\ mlastFire.full => (mlastFire.len = TimerCap
                          /\ (mlastFire.hadWaker => mlastFire.woke))
    /\ mlastPop.result = "Pending" => mlastPop.fired = 0
    /\ mrun <= TimerCap

\* C23: a firing found the queue full, and the consumer then drained
\* TimerCap ticks without a further firing.
C23_Witness ==
    /\ mlastFire.full
    /\ mrun = TimerCap
    /\ mlastPop.result = "Some"

(***************************************************************************)
(* The device notification hub (service crate, device.rs): the dispatcher  *)
(* thread with its window, DeviceNotificationData, the listener and the    *)
(* streams of DeviceNotificationListener::listen.                          *)
(***************************************************************************)
MaxListeners == 2      \* streams taken with listen() in one run
MaxDeviceEvents == 2   \* WM_DEVICECHANGE messages of one run

Listeners == 1..MaxListeners
Arrival == "Arrival"
StreamEnd == "None"
DropOutcomes == {"benign", "crash"}

\* DeviceNotificationData::try_wake: the one waker slot is shared by all
\* streams of the hub.
TryWake(waker, woken) == IF waker = 0 THEN woken ELSE woken \cup {waker}

hothers == <<wvars, rvars, dvars, tvars, kvars, avars, mvars, gvars, ovars>>

\* NotificationRegistry::spawn: the initial scan fills the queue, the
\* dispatcher thread is started; listen() hands out the streams.
HInit(streams, scans) ==
    /\ hstreams \in streams
    /\ hwindow = "starting"
    /\ hthread = "running"
    /\ hqueue \in scans
    /\ hwaker = 0
    /\ hwoken = {}
    /\ hended = {}
    /\ hlistener = "alive"
    /\ hevents = 0
    /\ hcrash = FALSE
    /\ hlast = [s \in Listeners |-> None]
    /\ hreleased = 0

\* device_notification_window_dispatcher up to the message loop: when
\* CreateWindowExW fails the thread returns the error and drops `arc`, an
\* Arc rebuilt at the type Arc<Arc<DeviceNotificationData>> whose counters
\* lie in the padding of the real allocation (undefined behaviour: either
\* nothing visible happens or the process crashes).  No window, so no
\* WM_DESTROY: the reference of spawn is not released.
DispatcherCreateWindow(ok, outcome) ==
    /\ hwindow = "starting"
    /\ ~hcrash
    /\ hwindow' = IF ok THEN "open" ELSE "failed"
    /\ hthread' = IF ok THEN "running" ELSE "returned"
    /\ hcrash' = (~ok /\ outcome = "crash")
    /\ UNCHANGED <<hstreams, hqueue, hwaker, hwoken, hended, hlistener, hevents,
                   hlast, hreleased>>
    /\ UNCHANGED hothers

\* device_notification_window_proceedure, WM_DEVICECHANGE: try_wake_with
DeviceChange ==
    /\ hwindow = "open"
    /\ ~hcrash
    /\ hevents < MaxDeviceEvents
    /\ hqueue' = Append(hqueue, Arrival)
    /\ hwoken' = TryWake(hwaker, hwoken)
    /\ hevents' = hevents + 1
    /\ UNCHANGED <<hstreams, hwindow, hthread, hwaker, hended, hlistener, hcrash,
                   hlast, hreleased>>
    /\ UNCHANGED hothers

\* Drop for DeviceNotificationListener = close(): FindWindowW by name; an
\* Err when no such window exists, else WM_CLOSE is posted and the thread
\* is joined.
HubDrop ==
    /\ hlistener = "alive"
    /\ ~hcrash
    /\ hlistener' = IF hwindow = "open" THEN "posted" ELSE "dropped"
    /\ UNCHANGED <<hstreams, hwindow, hthread, hqueue, hwaker, hwoken,
                   hended, hevents, hcrash, hlast, hreleased>>
    /\ UNCHANGED hothers

\* The dispatcher receives WM_CLOSE: DefWindowProcW destroys the window,
\* WM_DESTROY rebuilds the Arc of spawn at its own type, pushes None, wakes
\* and drops it (one strong reference released); the loop breaks, the
\* thread returns (dropping `arc` as above) and the join of close() ends.
DispatcherClose(outcome) ==
    /\ hlistener = "posted"
    /\ hwindow = "open"
    /\ ~hcrash
    /\ hwindow' = "destroyed"
    /\ hthread' = "returned"
    /\ hqueue' = Append(hqueue, StreamEnd)
    /\ hwoken' = TryWake(hwaker, hwoken)
    /\ hcrash' = (outcome = "crash")
    /\ hlistener' = IF outcome = "crash" THEN "posted" ELSE "dropped"
    /\ hreleased' = hreleased + 1
    /\ UNCHANGED <<hstreams, hwaker, hended, hevents, hlast>>
    /\ UNCHANGED hothers

\* DeviceNotificationStream::poll_next: register, then queue.pop()
NotificationStreamPoll(s) ==
    /\ s \in hstreams
    /\ ~hcrash
    /\ hwaker' = s
    /\ hwoken' = hwoken \ {s}
    /\ hqueue' = IF hqueue = <<>> THEN <<>> ELSE Tail(hqueue)
    /\ hended' = IF hqueue # <<>> /\ Head(hqueue) = StreamEnd THEN hended \cup {s} ELSE hended
    /\ hlast' = [hlast EXCEPT ![s] = IF hqueue = <<>> THEN "Pending" ELSE Head(hqueue)]
    /\ UNCHANGED <<hstreams, hwindow, hthread, hlistener, hevents, hcrash,
                   hreleased>>
    /\ UNCHANGED hothers

\* A DeviceNotificationStream is dropped: its Arc is released, the waker
\* slot keeps the waker it holds.
NotificationStreamDrop(s) ==
    /\ s \in hstreams
    /\ ~hcrash
    /\ hstreams' = hstreams \ {s}
    /\ UNCHANGED <<hwindow, hthread, hqueue, hwaker, hwoken, hended, hlistener,
                   hevents, hcrash, hlast, hreleased>>
    /\ UNCHANGED hothers

HNext ==
    \/ \E ok \in BOOLEAN, outcome \in DropOutcomes :
         DispatcherCreateWindow(ok, outcome)
    \/ DeviceChange
    \/ HubDrop
    \/ \E outcome \in DropOutcomes : DispatcherClose(outcome)
    \/ \E s \in Listeners : NotificationStreamPoll(s)
    \/ \E s \in Listeners : NotificationStreamDrop(s)

\* C24: after the hub is dropped every stream of listen() yields
\* Ready(None) once the queued events are consumed: when the drop of the
\* hub has returned, the dispatcher is past the creation of its window and
\* the queue is empty, every stream has returned Ready(None).
C24_DropEndsEveryStream ==
    (hlistener = "dropped" /\ hwindow # "starting" /\ hqueue = <<>> /\ ~hcrash)
        => \A s \in hstreams : s \in hended

(***************************************************************************)
(* Watch and Signal (futures/watch.rs) over the mock future and the mock   *)
(* stream of tests/futures.rs, whose answer the test sets beforehand.      *)
(***************************************************************************)
MaxItems == 3      \* items the watched stream hands out in one run

WatchKinds == {"future", "stream"}

\* The mocks of tests/futures.rs: the future is Pending or Ready, the
\* stream is Pending, hands out an item or ends.
MockPoll(kind, ready) ==
    IF ready = 0 THEN "Pending"
    ELSE IF kind = "future" THEN "Ready"
    ELSE IF ready = 1 THEN "Some" ELSE "None"

\* A Watch that completes on whatever is not Pending.
WatchCompletesOnReady(kind, result) == result # "Pending"

\* Watch::poll completes on Ready, Watch::poll_next on Ready(None) only.
WatchCompletes(kind, result) ==
    IF kind = "future" THEN result = "Ready" ELSE result = "None"

NoSignalPoll == [result |-> None, done |-> FALSE]

gothers == <<wvars, rvars, dvars, tvars, kvars, avars, mvars, hvars, ovars>>

\* FuturesExt::watch or StreamExt::watch on a mock that is Pending.
GInit(kinds) ==
    /\ gkind \in kinds
    /\ gready = 0
    /\ gwatch = "Incomplete"
    /\ gsignal = FALSE
    /\ gwaker = FALSE
    /\ gwoken = FALSE
    /\ gpanic = None
    /\ gdone = FALSE
    /\ gitems = 0
    /\ glastPoll = None
    /\ glastSignal = NoSignalPoll
    /\ gpolledAfter = FALSE

\* ready.store(v): the test sets what the mock answers to the next polls.
MockSet(v) ==
    /\ gpanic = None
    /\ v # gready
    /\ gkind = "future" => v <= 1
    /\ gready' = v
    /\ UNCHANGED <<gkind, gwatch, gsignal, gwaker, gwoken, gpanic, gdone,
                   gitems, glastPoll, glastSignal, gpolledAfter>>
    /\ UNCHANGED gothers

\* Watch::poll and Watch::poll_next
WatchPoll ==
    /\ gpanic = None
    /\ gpolledAfter' = gdone
    /\ IF gwatch = "Complete"
       THEN /\ gpanic' = IF gkind = "future"
                         THEN "Watch must not be polled after it returned Poll::Ready"
                         ELSE "Watch must not be polled after stream has finished"
            /\ UNCHANGED <<gwatch, gsignal, gwoken, gdone, gitems, glastPoll>>
       ELSE LET result == MockPoll(gkind, gready) IN
            /\ result = "Some" => gitems < MaxItems
            /\ glastPoll' = result
            /\ gitems' = IF result = "Some" THEN gitems + 1 ELSE gitems
            /\ gdone' = (result \in {"Ready", "None"})
            /\ gwatch' = IF WatchCompletes(gkind, result)
                         THEN "Complete" ELSE "Incomplete"
            /\ gsignal' = (gsignal \/ WatchCompletes(gkind, result))
            /\ gwoken' = (gwoken \/ (WatchCompletes(gkind, result) /\ gwaker))
            /\ UNCHANGED gpanic
    /\ UNCHANGED <<gkind, gready, gwaker, glastSignal>>
    /\ UNCHANGED gothers

\* Signal::poll
SignalPoll ==
    /\ gpanic = None
    /\ glastSignal' = [result |-> IF gsignal THEN "Ready" ELSE "Pending", done |-> gdone]
    /\ gwaker' = (gwaker \/ ~gsignal)
    /\ gwoken' = FALSE
    /\ UNCHANGED <<gkind, gready, gwatch, gsignal, gpanic, gdone, gitems,
                   glastPoll, gpolledAfter>>
    /\ UNCHANGED gothers

GNext ==
    \/ \E v \in 0..2 : MockSet(v)
    \/ WatchPoll
    \/ SignalPoll

\* C27: the Signal of a Watch is Pending as long as the watched object has
\* returned only Pending or items and Ready once the watched future has
\* returned Ready or the watched stream Ready(None); the Watch panics
\* exactly when it is polled after that.
C27_SignalMirrorsCompletion ==
    /\ gsignal <=> gdone
    /\ glastSignal.result = "Ready" <=> glastSignal.done
    /\ gdone <=> gwatch = "Complete"
    /\ gpanic # None <=> gpolledAfter
    /\ (gwaker /\ gdone /\ glastSignal.result = "Pending") => gwoken

\* C27: a stream handed out items with its Signal Pending, then ended, its
\* Signal was polled Ready, and the next poll of the Watch panicked.
C27_Witness ==
    /\ gkind = "stream"
    /\ gitems > 1
    /\ glastSignal = [result |-> "Ready", done |-> TRUE]
    /\ gpanic # None

(***************************************************************************)
(* The oneshot channel of the service crate (util/wait.rs): Sender,        *)
(* Receiver, oneshot and oneshot_callback.                                 *)
(***************************************************************************)
MaxPolls == 3      \* polls of each Receiver in one run
MaxChannels == 2   \* channels made with oneshot() in one run

Channels == 1..MaxChannels

\* A Receiver that is Ready whatever the state holds.
ReceiverReadyAlways(result) == TRUE

\* Receiver::poll: match state.result { Some(result) => Ready, None => .. }
ReceiverReady(result) == result # None

NoReceiverPoll == [result |-> None, set |-> FALSE, fired |-> FALSE]
NoCallback == [hadWaker |-> FALSE, woke |-> FALSE]

oothers == <<wvars, rvars, dvars, tvars, kvars, avars, mvars, hvars, gvars>>

\* oneshot(): a manual-reset event, unset; the wait on it is armed without
\* timeout; WaitState::default().  sender is "held", "set" or "dropped";
\* polls, calls, last and cb are history.
NewChannel ==
    [sender |-> "held", event |-> FALSE, armed |-> TRUE, result |-> None,
     waker |-> FALSE, woken |-> FALSE, polls |-> 0, calls |-> 0,
     last |-> NoReceiverPoll, cb |-> NoCallback]

OInit == ochan = [c \in Channels |-> NewChannel]

\* Sender::set consumes the Sender and signals the event.
ChannelSet(c) ==
    /\ ochan[c].sender = "held"
    /\ ochan' = [ochan EXCEPT ![c].sender = "set", ![c].event = TRUE]
    /\ UNCHANGED oothers

\* The Sender is dropped unsignalled (Sender has no Drop impl).
ChannelSenderDrop(c) ==
    /\ ochan[c].sender = "held"
    /\ ochan' = [ochan EXCEPT ![c].sender = "dropped"]
    /\ UNCHANGED oothers

\* oneshot_callback: the armed wait fires once the event is signalled; the
\* wait has no timeout, so waitresult is WAIT_OBJECT_0.
ChannelCallback(c) ==
    /\ ochan[c].armed
    /\ ochan[c].event
    /\ ochan' = [ochan EXCEPT
                    ![c].armed = FALSE,
                    ![c].result = "Ok",
                    ![c].woken = (@ \/ ochan[c].waker),
                    ![c].calls = @ + 1,
                    ![c].cb = [hadWaker |-> ochan[c].waker,
                               woke |-> (ochan[c].woken \/ ochan[c].waker)]]
    /\ UNCHANGED oothers

\* Receiver::poll: Ready wakes and empties the waker slot and leaves the
\* result in place; Pending stores the waker.
ReceiverPoll(c) ==
    /\ ochan[c].polls < MaxPolls
    /\ LET ready == ReceiverReady(ochan[c].result) IN
       ochan' = [ochan EXCEPT
                    ![c].polls = @ + 1,
                    ![c].waker = ~ready,
                    ![c].woken = (ready /\ ochan[c].waker),
                    ![c].last = [result |-> IF ready THEN "Ready" ELSE "Pending",
                                 set |-> ochan[c].sender = "set",
                                 fired |-> ochan[c].result # None]]
    /\ UNCHANGED oothers

ONext ==
    \/ \E c \in Channels : ChannelSet(c)
    \/ \E c \in Channels : ChannelSenderDrop(c)
    \/ \E c \in Channels : ChannelCallback(c)
    \/ \E c \in Channels : ReceiverPoll(c)

C25_CallbacksNeverPanic ==
    [][(kread' < kread) => rpanic' = None]_vars

\* C29: a write completion that reports success with bytes remaining
\* reissues the write and returns: the callback thread never blocks on the
\* state lock it holds, and flush is never entered on the Inert state the
\* callback left behind.
C29_PartialCompletionReissues ==
    /\ wlock # "deadlock"
    /\ wpanic # "WriteState::Inert cannot call flush"

\* C30: between a read start that returned pending and the matching
\* completion the driver leaves the buffer alone: in a run in which no read
\* completed synchronously, while a read is in flight the logical content
\* of the buffer is what the drain of the last completion left in it.
C30_BufferUntouchedInFlight ==
    (kread > 0 /\ ~rsync) => View(rbuf) = rundecoded

\* C26: only Eof and the overflow marker end the read stream; a decode
\* error or a kernel I/O error is handed out as an item and does not stop
\* the delivery: a stream has ended only on Eof or QueueFull, the queue
\* holds the latest results pushed, and every result pushed was handed
\* out, displaced by an overflow or is still queued.
C26_OnlyEofAndOverflowEnd ==
    /\ \A r \in Readers :
          readers[r].reading = "signalled"
              => (rseen # <<>> /\ rseen[Len(rseen)].k \in {"Eof", "QueueFull"})
    /\ rqueue = SubSeq(rpushed, Len(rpushed) - Len(rqueue) + 1, Len(rpushed))
    /\ Len(rseen) + Len(rdropped) + Len(rqueue) = Len(rpushed)

\* C26: the consumer received a decode error and, after it, an item.
C26_Witness ==
    \E i, j \in 1..Len(rseen) :
        /\ i < j
        /\ rseen[i] = ErrDecode
        /\ rseen[j].k = "Ok"
        /\ readers[1].obj = "stream"

\* C32: a timer callback that runs between the length check of
\* TimerFuture::poll and its waker registration still wakes the task: a
\* oneshot future that returned Pending while a tick is queued has been
\* woken to poll again.
C32_FireDuringPollWakes ==
    (mkind = "oneshot" /\ mpoll = "idle" /\ mwatch = "Incomplete"
        /\ mlastPoll = "Pending" /\ mtimeouts # <<>>)
        => mwoken

\* C33: the future returned by restart resolves with the outcome of the
\* wait that restart armed: while that wait is still armed (not signalled,
\* not timed out, not cancelled) no callback has stored a result since the
\* restart.
C33_RestartOwnOutcome ==
    (arestarted /\ aarmed /\ apanic = None) => ~asince

\* C34: the buffers and OVERLAPPED blocks of the I/O drivers are freed only
\* when the kernel holds no pending read or write on them.
C34_BuffersOutliveKernelIo ==
    (dkind = "io" /\ dshared = "freed") => ~darmed

\* C35: when the dispatcher thread has returned, on the window-destroy path
\* and on the creation-failure path alike, it has released exactly one
\* strong reference, the one spawn transferred to it.
C35_DispatcherReleasesOne ==
    (hthread = "returned" /\ ~hcrash) => hreleased = 1

\* C36: when the tracker has ended, every unplugged future it handed out
\* for a port that was still tracked resolves: the event its Receiver waits
\* on has been signalled.  (Only Sender::set signals that event, and the
\* Senders are gone with the tracker.)
C36_EndResolvesUnplugged ==
    tstate = "Complete" =>
        \A c \in 1..Len(tchan) : tchan[c].unplugAfter \/ tchan[c].event

\* A complete newline-terminated line lies among the bytes.
HasLine(bytes) == \E i \in 1..Len(bytes) : bytes[i] = LF

\* C37: after a read completion has been processed no complete line is left
\* in the buffer: the bytes its drain left undecoded hold no line feed.
\* Stated on the runs in which every read completed through the callback.
C37_NoCompleteLineLeft ==
    (~rsync /\ rpanic = None /\ lastComp.chunk # <<>>) => ~HasLine(rundecoded)

\* C38: WriteDriver::flush returns after a bounded number of kernel calls:
\* it never stays in its loop, holding the state mutex, on a kernel that
\* answers a successful write of 0 bytes while bytes remain.
C38_FlushReturns == wlock # "spin"

\* C39: the transition to Complete wakes the waker stored by the most
\* recent poll of the flush future: the state is never Complete while the
\* task whose poll returned Pending last has not been woken.
C39_CompleteWakesPoller ==
    wstate.tag = "Complete" => wparked = {}

\* C40: no event stays in the queue of the hub while every consumer has
\* returned Pending and none was woken: with an event queued, some stream
\* has not returned Pending from its latest poll or has been woken since.
C40_NoLostWakeup ==
    (hqueue # <<>> /\ hstreams # {} /\ ~hcrash)
        => \E s \in hstreams : hlast[s] # "Pending" \/ s \in hwoken

\* C31: a call of Reader::stream made after the previous stream was
\* dropped returns: no call stays parked on the Signal of the previous
\* stream.  The stream borrows the Reader, so a call finds the previous
\* Signal unsignalled only when its Watch was dropped before it completed,
\* and a dropped Watch can no longer signal.
C31_NextOperationReturns ==
    \A r \in Readers : readers[r].obj # "await"

(***************************************************************************)
(* Specifications: one per subsystem, the other subsystems standing still. *)
(***************************************************************************)
\* The subsystems a specification leaves alone start with nothing to do.
TIdle == TInit({<<>>})
AIdle == AInit({"WaitPool"})
HIdle == HInit({{1}}, {<<>>})
GIdle == GInit({"future"})
YIdle == HIdle /\ GIdle /\ OInit
PoolsIdle == TIdle /\ KInit /\ AIdle /\ MInit
XIdle == PoolsIdle /\ YIdle
CoreIdle == WInit /\ RInit(ShortInputs) /\ DInit({"io"})

InitWrite == WInit /\ RInit(ShortInputs) /\ DInit({"io"}) /\ XIdle
SpecWrite == InitWrite /\ [][WNext]_vars

\* One Reader, the device sending one of Inputs.
InitRead == WInit /\ RInit(Inputs) /\ DInit({"io"}) /\ XIdle
ReadNext == RNext({1})
SpecRead == InitRead /\ [][ReadNext]_vars

\* One Reader, the device sending a line that does not decode.
InitDecode == WInit /\ RInit(DecodeInputs) /\ DInit({"io"}) /\ XIdle
SpecDecode == InitDecode /\ [][ReadNext]_vars

\* Every Reader of Readers, the device sending a single line.
InitReaders == WInit /\ RInit(ShortInputs) /\ DInit({"io"}) /\ XIdle
ReadersNext == RNext(Readers)
SpecReaders == InitReaders /\ [][ReadersNext]_vars

\* The drop of a pool object of each kind.
InitDrop == WInit /\ RInit(ShortInputs) /\ DInit(Pools) /\ XIdle
SpecDrop == InitDrop /\ [][DNext]_vars

\* The plug-event tracker fed one of TrackScripts.
InitTrack == CoreIdle /\ TInit(TrackScripts) /\ KInit /\ AIdle /\ MInit /\ YIdle
SpecTrack == InitTrack /\ [][TNext]_vars

\* The work-once pool after once(f).
InitWork == CoreIdle /\ TIdle /\ KInit /\ AIdle /\ MInit /\ YIdle
SpecWork == InitWork /\ [][KNext]_vars

\* A WaitPool or an EventListener after new().
InitWait == CoreIdle /\ TIdle /\ KInit /\ AInit(WaitKinds) /\ MInit /\ YIdle
SpecWait == InitWait /\ [][ANext]_vars

\* A TimerPool after new().
InitTimer == CoreIdle /\ TIdle /\ KInit /\ AIdle /\ MInit /\ YIdle
SpecTimer == InitTimer /\ [][MNext]_vars

\* A notification hub after spawn(), with one or two streams of listen().
HubScans == {<<>>, <<Arrival>>}
InitHub ==
    CoreIdle /\ PoolsIdle /\ HInit({{1}, Listeners}, HubScans) /\ GIdle /\ OInit
SpecHub == InitHub /\ [][HNext]_vars

\* A Watch with its Signal, after watch() on a mock future or stream.
InitWatch == CoreIdle /\ PoolsIdle /\ HIdle /\ GInit(WatchKinds) /\ OInit
SpecWatch == InitWatch /\ [][GNext]_vars

\* A oneshot channel after oneshot().
InitChannel == CoreIdle /\ XIdle
SpecChannel == InitChannel /\ [][ONext]_vars
====
